---- MODULE Spec2Model ----
(***************************************************************************)
(* L-Store storage engine (lstore/page.py, lstore/table.py,                *)
(* lstore/bplus.py, lstore/index.py, lstore/query.py, config.py).          *)
(*                                                                         *)
(* Python lists are 0-based; a list is a TLA+ sequence and list[i] is      *)
(* At(list, i).  A defaultdict is a function whose DOMAIN is the set of    *)
(* keys created so far.  An operation that can raise returns a record      *)
(* [pd, exc, val]: the directory as the raise (or the return) leaves it,   *)
(* the exception's class name ("" when none), and the returned value.      *)
(*                                                                         *)
(* The sizes of config.py (4096-byte pages of 8-byte integers, 16 pages a  *)
(* range) are scaled down: page_size, int_size and pages_per_range are     *)
(* bounds of the model, and every other size is derived from them as       *)
(* config.py derives it.  null_value is the smallest integer of the scaled *)
(* width, as -2**63 is the smallest of the 8-byte width.                   *)
(***************************************************************************)
EXTENDS Integers, Sequences, FiniteSets, TLC

\* ------------------------------------------------------------- config.py
page_size == 2
int_size == 1
pages_per_range == 2
records_per_page == page_size \div int_size
records_per_range == records_per_page * pages_per_range
range_cap == records_per_range * 2
indirection_column == 0
rid_column == 1
timestamp_column == 2
schema_encoding_column == 3
base_rid_column == 4
base_meta_columns == 4
tail_meta_columns == 5
IntModulus == 2 ^ (8 * int_size)
null_value == -(IntModulus \div 2)
deleted_record_value == -1
\* Page.__init__ and Page.has_capacity read Config.max_slots, which config.py
\* does not define: the slots of a page, SLOTS_PER_PAGE = PAGE_SIZE / 8.
max_slots == records_per_page

\* Table("grades", num_columns, key): the data columns and the key column.
num_columns == 2
key == 0

\* ------------------------------------------------------------ list helpers
At(s, i) == s[i + 1]
SetAt(s, i, v) == [s EXCEPT ![i + 1] = v]
Range(s) == {s[i] : i \in 1..Len(s)}
Last(s) == s[Len(s)]
Reverse(s) == [i \in 1..Len(s) |-> s[Len(s) + 1 - i]]
Min(a, b) == IF a < b THEN a ELSE b
Max(a, b) == IF a > b THEN a ELSE b
\* d[k] of a defaultdict: the key is created with the default when absent.
Touch(d, k, default) == IF k \in DOMAIN d THEN d ELSE d @@ (k :> default)

\* Body(value), value worked out once however often Body refers to it
Let(value, Body(_)) == CHOOSE result \in {Body(v) : v \in {value}} : TRUE

RECURSIVE BitAnd(_, _)
BitAnd(a, b) ==
  IF a = 0 \/ b = 0 THEN 0
  ELSE (a % 2) * (b % 2) + 2 * BitAnd(a \div 2, b \div 2)

RECURSIVE BitOr(_, _)
BitOr(a, b) ==
  IF a = 0 THEN b
  ELSE IF b = 0 THEN a
  ELSE Max(a % 2, b % 2) + 2 * BitOr(a \div 2, b \div 2)

\* ---------------------------------------------------------------- page.py
\* int.to_bytes(int_size, 'little', signed=True): OverflowError out of range.
Fits(value) == null_value <= value /\ value < -null_value
to_bytes(value) ==
  [i \in 0..(int_size - 1) |-> ((value % IntModulus) \div (256 ^ i)) % 256]

RECURSIVE UnsignedFrom(_, _, _)
UnsignedFrom(data, offset, n) ==
  IF n = 0 THEN 0
  ELSE data[offset] + 256 * UnsignedFrom(data, offset + 1, n - 1)

\* int.from_bytes(data[offset : offset + int_size], 'little', signed=True)
from_bytes(data, offset) ==
  LET u == UnsignedFrom(data, offset, int_size)
  IN IF u >= -null_value THEN u - IntModulus ELSE u

Page == [num_records |-> 0, data |-> [i \in 0..(page_size - 1) |-> 0]]

HasCapacityInclusive(page) == page.num_records <= max_slots
has_capacity(page) == page.num_records < max_slots

get_offset(slot) == slot * int_size

StoreBytes(data, offset, value) ==
  [i \in DOMAIN data |->
     IF offset <= i /\ i < offset + int_size
     THEN to_bytes(value)[i - offset] ELSE data[i]]

\* a write that starts over at slot 0 instead of appending
PageWriteRewind(page, value) ==
  IF ~has_capacity(page) THEN page
  ELSE [num_records |-> page.num_records + 1,
        data |-> StoreBytes(page.data, get_offset(0), value)]

\* Page.write: the page after the call (unchanged when it returns False).
PageWrite(page, value) ==
  IF ~has_capacity(page) THEN page
  ELSE [num_records |-> page.num_records + 1,
        data |-> StoreBytes(page.data, get_offset(page.num_records), value)]

\* what Page.write returns: the slot written, or False (full) when the page is full
PageWriteReturn(page) ==
  IF ~has_capacity(page) THEN [full |-> TRUE, val |-> 0]
  ELSE [full |-> FALSE, val |-> (page.num_records + 1) - 1]

PageReadOk(page, slot) == ~(slot < 0 \/ slot >= page.num_records)
PageRead(page, slot) == from_bytes(page.data, get_offset(slot))

\* Page.read_range(start, end), end already resolved: IndexError unless Ok
PageReadRangeOkUnordered(page, start, end) ==
  ~(start < 0 \/ start > page.num_records \/ end < 0 \/ end > page.num_records)
PageReadRangeOk(page, start, end) ==
  ~(start < 0 \/ start > page.num_records \/ end < 0 \/ end > page.num_records
    \/ start > end)
PageReadRange(page, start, end) ==
  [i \in 1..(end - start) |-> PageRead(page, start + (i - 1))]

\* Page.write_slot is called by table.py and is not defined in page.py:
\* overwrite the bytes of slot in place, cursor unchanged, out of bounds when
\* slot is not in [0, num_records).
PageWriteSlot(page, slot, value) ==
  [page EXCEPT !.data = StoreBytes(page.data, get_offset(slot), value)]

PageWriteSlotOk(page, slot) == ~(slot < 0 \/ slot >= page.num_records)

\* --------------------------------------------------- table.py: PageDirectory
\* PageDirectory.__init__
PageDirectory ==
  [page_directory |-> <<>>,
   num_columns |-> num_columns,
   num_base_records |-> 0,
   num_tail_records |-> 0,
   base_offsets |-> <<>>,
   tail_offsets |-> <<>>]

\* the default of the page_directory defaultdict
EmptyRange == [base |-> <<>>, tail |-> <<>>]

\* self.page_directory[range_id]: creates the entry when it is absent
TouchRange(pd, range_id) ==
  [pd EXCEPT !.page_directory = Touch(pd.page_directory, range_id, EmptyRange)]

SegmentPages(pd, range_id, segment_key) ==
  IF range_id \in DOMAIN pd.page_directory
  THEN pd.page_directory[range_id][segment_key]
  ELSE <<>>

EncodeRidHalfCap(range_id, segment, offset) ==
  range_id * records_per_range + segment * records_per_range + offset
encode_rid(range_id, segment, offset) ==
  range_id * range_cap + segment * records_per_range + offset

\* <<range_id, segment, page_index, slot_index>>
decode_rid(rid) ==
  LET range_id == rid \div range_cap
      segment_block == rid % range_cap
      segment == segment_block \div records_per_range
      offset == segment_block % records_per_range
  IN << range_id, segment, offset \div records_per_page, offset % records_per_page >>

SegmentKey(segment) == IF segment # 0 THEN "tail" ELSE "base"

\* an encoding with the least significant bit for column 0
BuildSchemaReversed(tail_columns) ==
  LET num_data_columns == Len(tail_columns) - tail_meta_columns
      bit(i) == IF At(tail_columns, i + tail_meta_columns) # null_value
                THEN 2 ^ i ELSE 0
      RECURSIVE Acc(_)
      Acc(i) == IF i >= num_data_columns THEN 0 ELSE BitOr(bit(i), Acc(i + 1))
  IN Acc(0)
build_schema_encoding(tail_columns) ==
  LET num_data_columns == Len(tail_columns) - tail_meta_columns
      bit(i) == IF At(tail_columns, i + tail_meta_columns) # null_value
                THEN 2 ^ (num_data_columns - i - 1) ELSE 0
      RECURSIVE Acc(_)
      Acc(i) == IF i >= num_data_columns THEN 0 ELSE BitOr(bit(i), Acc(i + 1))
  IN Acc(0)

\* get_record_from_rid: [exc, val]; the directory entry it creates is TouchRange.
get_record_from_rid(pd, rid) ==
  LET d == decode_rid(rid)
      range_id == d[1]
      segment == d[2]
      page_index == d[3]
      slot_index == d[4]
      n == (IF segment # 0 THEN tail_meta_columns ELSE base_meta_columns) + pd.num_columns
      pages == SegmentPages(pd, range_id, SegmentKey(segment))
  IN IF page_index >= Len(pages) THEN [exc |-> "IndexError", val |-> <<>>]
     ELSE LET logical_page == At(pages, page_index)
          IN IF \E i \in 0..(n - 1) :
                  i >= Len(logical_page) \/ ~PageReadOk(At(logical_page, i), slot_index)
             THEN [exc |-> "IndexError", val |-> <<>>]
             ELSE LET columns == [i \in 1..n |-> PageRead(logical_page[i], slot_index)]
                  IN IF segment = 0 /\ At(columns, indirection_column) = deleted_record_value
                     THEN [exc |-> "RuntimeError", val |-> <<>>]
                     ELSE [exc |-> "", val |-> columns]

\* update_base_record: [pd, exc]
\* the schema encoding of the base replaced by that of the tail
MergeSchemaOverwrite(new_schema_encoding, base_schema_encoding) ==
  new_schema_encoding
\* new_schema_encoding | base_schema_encoding
MergeSchema(new_schema_encoding, base_schema_encoding) ==
  BitOr(new_schema_encoding, base_schema_encoding)

update_base_record(pd, base_rid, tail_columns) ==
  LET d == decode_rid(base_rid)
      range_id == d[1]
      page_index == d[3]
      slot_index == d[4]
      pd1 == TouchRange(pd, range_id)
      pages == pd1.page_directory[range_id]["base"]
  IN IF page_index >= Len(pages) THEN [pd |-> pd1, exc |-> "IndexError"]
     ELSE
     LET logical_page == At(pages, page_index)
         base_indirection_page == At(logical_page, indirection_column)
         base_schema_encoding_page == At(logical_page, schema_encoding_column)
     IN IF ~PageWriteSlotOk(base_indirection_page, slot_index)
        THEN [pd |-> pd1, exc |-> "IndexError"]
        ELSE
        LET lp1 == SetAt(logical_page, indirection_column,
                     PageWriteSlot(base_indirection_page, slot_index,
                                   At(tail_columns, rid_column)))
            pdw == [pd1 EXCEPT !.page_directory[range_id]["base"][page_index + 1] = lp1]
        IN IF ~PageReadOk(base_schema_encoding_page, slot_index)
           THEN [pd |-> pdw, exc |-> "IndexError"]
           ELSE
           LET base_schema_encoding == PageRead(base_schema_encoding_page, slot_index)
               new_schema_encoding == build_schema_encoding(tail_columns)
               lp2 == SetAt(lp1, schema_encoding_column,
                        PageWriteSlot(base_schema_encoding_page, slot_index,
                                      MergeSchema(new_schema_encoding,
                                                  base_schema_encoding)))
           IN [pd |-> [pd1 EXCEPT !.page_directory[range_id]["base"][page_index + 1] = lp2],
               exc |-> ""]

\* the lazy allocation loop of add_record
RECURSIVE AllocatePages(_, _, _)
AllocatePages(pages, page_index, n) ==
  IF page_index >= Len(pages)
  THEN AllocatePages(Append(pages, [i \in 1..n |-> Page]), page_index, n)
  ELSE pages

\* the write loop of add_record: value i goes to column page i, up to the first
\* value that to_bytes rejects
FirstOverflow(columns) ==
  IF \E i \in 1..Len(columns) : ~Fits(columns[i])
  THEN (CHOOSE i \in 1..Len(columns) :
          ~Fits(columns[i]) /\ \A j \in 1..(i - 1) : Fits(columns[j])) - 1
  ELSE Len(columns)

WriteColumns(logical_page, columns) ==
  LET k == FirstOverflow(columns)
  IN [i \in 1..Len(logical_page) |->
        IF i <= k THEN PageWrite(logical_page[i], columns[i]) ELSE logical_page[i]]

\* add_record from the write of the timestamp on; columns holds the meta
\* columns set so far, pd the offsets as incremented.
AddRecordWrite(pd, columns0, is_tail, base_rid, rid, now) ==
  LET columns1 == SetAt(columns0, timestamp_column, now)
      range_id == decode_rid(rid)[1]
      page_index == decode_rid(rid)[3]
      segment_key == IF is_tail THEN "tail" ELSE "base"
      num == Len(columns0)
      pd1 == TouchRange(pd, range_id)
      pages == AllocatePages(pd1.page_directory[range_id][segment_key], page_index, num)
      columns == SetAt(columns1, rid_column, rid)
      written == SetAt(pages, page_index, WriteColumns(At(pages, page_index), columns))
      pd2 == [pd1 EXCEPT !.page_directory[range_id][segment_key] = written]
  IN IF FirstOverflow(columns) < num
     THEN [pd |-> pd2, exc |-> "OverflowError", val |-> 0]
     ELSE
     LET pd3 == IF is_tail
                THEN [pd2 EXCEPT !.num_tail_records = @ + 1]
                ELSE [pd2 EXCEPT !.num_base_records = @ + 1]
     IN IF is_tail /\ base_rid # null_value
        THEN LET u == update_base_record(pd3, base_rid, columns)
             IN [pd |-> u.pd, exc |-> u.exc, val |-> IF u.exc = "" THEN rid ELSE 0]
        ELSE [pd |-> pd3, exc |-> "", val |-> rid]

\* a test that lets one record more into the range
TailRangeIsFullAboveCap(offset) == offset > records_per_range
\* the test of add_record that raises "Tail range is full"
TailRangeIsFull(offset) == offset >= records_per_range

\* a directory that keeps every base record in range 0
BaseRangeFirst(num_base_records) == 0
\* the range a base insert goes to
BaseRangeOf(num_base_records) == num_base_records \div records_per_range

\* add_record(columns, is_tail, base_rid), the clock reading now: [pd, exc, val]
add_record(pd, columns, is_tail, base_rid, now) ==
  LET expected_len ==
        (IF is_tail THEN tail_meta_columns ELSE base_meta_columns) + pd.num_columns
  IN
  IF Len(columns) # expected_len THEN [pd |-> pd, exc |-> "ValueError", val |-> 0]
  ELSE IF ~is_tail THEN
    LET range_id == BaseRangeOf(pd.num_base_records)
        offsets == Touch(pd.base_offsets, range_id, 0)
        offset == offsets[range_id]
        rid == encode_rid(range_id, 0, offset)
        pd1 == [pd EXCEPT !.base_offsets = [offsets EXCEPT ![range_id] = @ + 1]]
        columns0 == SetAt(SetAt(columns, indirection_column, null_value),
                          schema_encoding_column, 0)
    IN AddRecordWrite(pd1, columns0, is_tail, base_rid, rid, now)
  ELSE
    LET base_range == decode_rid(base_rid)[1]
        offsets == Touch(pd.tail_offsets, base_range, 0)
        offset == offsets[base_range]
        pd0 == [pd EXCEPT !.tail_offsets = offsets]
    IN IF TailRangeIsFull(offset)
       THEN [pd |-> pd0, exc |-> "RuntimeError", val |-> 0]
       ELSE
       LET rid == encode_rid(base_range, 1, offset)
           pd1 == [pd0 EXCEPT !.tail_offsets[base_range] = @ + 1]
           columns0 == SetAt(columns, schema_encoding_column,
                             build_schema_encoding(columns))
           base_record == get_record_from_rid(pd1, base_rid)
           pd2 == TouchRange(pd1, decode_rid(base_rid)[1])
       IN IF base_record.exc # ""
          THEN [pd |-> pd2, exc |-> base_record.exc, val |-> 0]
          ELSE
          LET base_indirection == At(base_record.val, indirection_column)
              columns1 == SetAt(columns0, indirection_column,
                                IF base_indirection # null_value
                                THEN base_indirection ELSE base_rid)
              columns2 == SetAt(columns1, base_rid_column, base_rid)
          IN AddRecordWrite(pd2, columns2, is_tail, base_rid, rid, now)

\* delete_record(rid): [pd, exc, val]
delete_record(pd, rid) ==
  IF rid < 0 \/ rid >= pd.num_base_records
  THEN [pd |-> pd, exc |-> "", val |-> FALSE]
  ELSE
  LET range_id == rid \div records_per_range
      page_index == (rid \div records_per_page) % pages_per_range
  IN IF range_id \notin DOMAIN pd.page_directory
        \/ pd.page_directory[range_id]["base"] = <<>>
     THEN [pd |-> pd, exc |-> "", val |-> FALSE]
     ELSE IF page_index >= Len(pd.page_directory[range_id]["base"])
     THEN [pd |-> pd, exc |-> "", val |-> FALSE]
     ELSE
     LET slot_index == rid % records_per_page
         logical_page == At(pd.page_directory[range_id]["base"], page_index)
         rid_page == At(logical_page, rid_column)
         indirection_page == At(logical_page, indirection_column)
     IN IF ~PageReadOk(rid_page, slot_index)
        THEN [pd |-> pd, exc |-> "IndexError", val |-> FALSE]
        ELSE IF PageRead(rid_page, slot_index) = null_value
        THEN [pd |-> pd, exc |-> "", val |-> TRUE]
        ELSE IF ~PageWriteSlotOk(indirection_page, slot_index)
        THEN [pd |-> pd, exc |-> "IndexError", val |-> FALSE]
        ELSE [pd |-> [pd EXCEPT !.page_directory[range_id]["base"][page_index + 1] =
                        SetAt(logical_page, indirection_column,
                              PageWriteSlot(indirection_page, slot_index,
                                            deleted_record_value))],
              exc |-> "", val |-> TRUE]

\* base_record[:base_meta] + [base_record[rid_column]] + base_record[base_meta:]
ShapedBase(base_record) ==
  SubSeq(base_record, 1, base_meta_columns)
    \o << At(base_record, rid_column) >>
    \o SubSeq(base_record, base_meta_columns + 1, Len(base_record))

\* One pass of the for loop of get_cumulative_updated_record_from_base_rid over
\* the columns column_index..data_column_count-1: <<result, schema_encoding>>.
RECURSIVE CumulativeColumns(_, _, _, _, _)
CumulativeColumns(result, schema_encoding, current_record, column_index, data_column_count) ==
  IF column_index >= data_column_count THEN << result, schema_encoding, "" >>
  ELSE
  LET bit_mask == 2 ^ (data_column_count - column_index - 1)
  IN IF BitAnd(schema_encoding, bit_mask) # 0
     THEN IF column_index >= Len(current_record)
          THEN << result, schema_encoding, "IndexError" >>
          ELSE IF At(current_record, column_index) # null_value
          THEN CumulativeColumns(
                 SetAt(result, column_index, At(current_record, column_index)),
                 schema_encoding - bit_mask, current_record,
                 column_index + 1, data_column_count)
          ELSE CumulativeColumns(result, schema_encoding, current_record,
                                 column_index + 1, data_column_count)
     ELSE CumulativeColumns(result, schema_encoding, current_record,
                            column_index + 1, data_column_count)

\* The while loop of get_cumulative_updated_record_from_base_rid.  The loop is
\* deterministic in (indirection_rid, schema_encoding): when a pair comes back
\* the loop never ends, reported as exc = "Nontermination".
RECURSIVE CumulativeWalk(_, _, _, _, _, _)
CumulativeWalk(pd, base_rid, result, schema_encoding, indirection_rid, seen) ==
  IF ~(schema_encoding # 0 /\ indirection_rid # base_rid)
  THEN [exc |-> "", val |-> result]
  ELSE IF << indirection_rid, schema_encoding >> \in seen
  THEN [exc |-> "Nontermination", val |-> <<>>]
  ELSE
  LET current_record == get_record_from_rid(pd, indirection_rid)
  IN IF current_record.exc # "" THEN [exc |-> current_record.exc, val |-> <<>>]
     ELSE
     LET step == CumulativeColumns(result, schema_encoding, current_record.val,
                                   tail_meta_columns, pd.num_columns + tail_meta_columns)
     IN IF step[3] # "" THEN [exc |-> step[3], val |-> <<>>]
        ELSE CumulativeWalk(pd, base_rid, step[1], step[2],
                            At(current_record.val, indirection_column),
                            seen \cup {<< indirection_rid, schema_encoding >>})

\* get_cumulative_updated_record_from_base_rid: [exc, val]
get_cumulative_updated_record_from_base_rid(pd, base_rid) ==
  LET base_record == get_record_from_rid(pd, base_rid)
  IN IF base_record.exc # "" THEN base_record
     ELSE
     LET result_record == ShapedBase(base_record.val)
         indirection_rid == At(base_record.val, indirection_column)
     IN IF indirection_rid = null_value THEN [exc |-> "", val |-> result_record]
        ELSE CumulativeWalk(pd, base_rid, result_record,
                            At(base_record.val, schema_encoding_column),
                            indirection_rid, {})

\* The chain walk of get_relative_version_of_record_from_base_rid:
\* [exc, rids, val], the RIDs read and the records gathered, newest first.  The
\* loop is deterministic in current_rid: when a RID comes back it never ends.
RECURSIVE GatherTails(_, _, _, _)
GatherTails(pd, current_rid, rids, tails_newest_first) ==
  IF ~(current_rid # null_value)
  THEN [exc |-> "", rids |-> rids, val |-> tails_newest_first]
  ELSE IF current_rid \in Range(rids)
  THEN [exc |-> "Nontermination", rids |-> Append(rids, current_rid),
        val |-> tails_newest_first]
  ELSE
  LET tail_record == get_record_from_rid(pd, current_rid)
  IN IF tail_record.exc # ""
     THEN [exc |-> tail_record.exc, rids |-> Append(rids, current_rid),
           val |-> tails_newest_first]
     ELSE GatherTails(pd, At(tail_record.val, indirection_column),
                      Append(rids, current_rid),
                      Append(tails_newest_first, tail_record.val))

\* for column_index in range(tail_meta_columns, data_column_count) of one tail
RECURSIVE ApplyTail(_, _, _, _)
ApplyTail(result_record, tail_record, column_index, data_column_count) ==
  IF column_index >= data_column_count THEN [exc |-> "", val |-> result_record]
  ELSE IF column_index >= Len(tail_record) THEN [exc |-> "IndexError", val |-> <<>>]
  ELSE ApplyTail(
         IF At(tail_record, column_index) # null_value
         THEN SetAt(result_record, column_index, At(tail_record, column_index))
         ELSE result_record,
         tail_record, column_index + 1, data_column_count)

\* for tail_record in tails[:apply_count], from tails[i] on
RECURSIVE ApplyTails(_, _, _, _, _)
ApplyTails(result_record, tails, i, apply_count, data_column_count) ==
  IF i > Min(apply_count, Len(tails)) THEN [exc |-> "", val |-> result_record]
  ELSE LET r == ApplyTail(result_record, tails[i], tail_meta_columns, data_column_count)
       IN IF r.exc # "" THEN r
          ELSE ApplyTails(r.val, tails, i + 1, apply_count, data_column_count)

\* get_relative_version_of_record_from_base_rid: [exc, val]
get_relative_version_of_record_from_base_rid(pd, base_rid, version) ==
  LET base_record == get_record_from_rid(pd, base_rid)
  IN IF base_record.exc # "" THEN base_record
     ELSE IF version = 0 THEN [exc |-> "", val |-> ShapedBase(base_record.val)]
     ELSE IF version = -1 THEN get_cumulative_updated_record_from_base_rid(pd, base_rid)
     ELSE
     LET g == GatherTails(pd, At(base_record.val, indirection_column), <<>>, <<>>)
     IN IF g.exc # "" THEN [exc |-> g.exc, val |-> <<>>]
        ELSE
        LET tails_oldest_first == Reverse(g.val)
            apply_count == IF version < -1
                           THEN Max(0, Len(tails_oldest_first) - (-1 - version))
                           ELSE Min(version, Len(tails_oldest_first))
        IN ApplyTails(ShapedBase(base_record.val), tails_oldest_first, 1,
                      apply_count, pd.num_columns + tail_meta_columns)

\* ---------------------------------------------------------------- bplus.py
\* A tree is [order, root, size, nodes, exc]: nodes lists the node objects,
\* [leaf, keys, parent, values, next, prev, children], and a reference to a
\* node is its place in the list, 0 where the code holds None. A node no
\* reference leads to any more is dropped from the list, the nodes after it
\* moving up one place.
\* exc is "" but inside an operation that has raised: the steps after a raise
\* do nothing.
ListInsert(s, idx, x) == SubSeq(s, 1, idx) \o << x >> \o SubSeq(s, idx + 1, Len(s))
ListPop(s, idx) == SubSeq(s, 1, idx) \o SubSeq(s, idx + 2, Len(s))
ListIndex(s, x) == (CHOOSE i \in 1..Len(s) : s[i] = x /\ \A j \in 1..(i - 1) : s[j] # x) - 1
ListRemove(s, x) == ListPop(s, ListIndex(s, x))

RECURSIVE BisectLeft(_, _, _, _)
BisectLeft(a, x, lo, hi) ==
  IF lo >= hi THEN lo
  ELSE LET mid == (lo + hi) \div 2
       IN IF At(a, mid) < x THEN BisectLeft(a, x, mid + 1, hi)
          ELSE BisectLeft(a, x, lo, mid)
bisect_left(a, x) == BisectLeft(a, x, 0, Len(a))

RECURSIVE BisectRight(_, _, _, _)
BisectRight(a, x, lo, hi) ==
  IF lo >= hi THEN lo
  ELSE LET mid == (lo + hi) \div 2
       IN IF x < At(a, mid) THEN BisectRight(a, x, lo, mid)
          ELSE BisectRight(a, x, mid + 1, hi)
bisect_right(a, x) == BisectRight(a, x, 0, Len(a))

LeafNode ==
  [leaf |-> TRUE, keys |-> <<>>, parent |-> 0, values |-> <<>>,
   next |-> 0, prev |-> 0, children |-> <<>>]
InternalNode ==
  [leaf |-> FALSE, keys |-> <<>>, parent |-> 0, values |-> <<>>,
   next |-> 0, prev |-> 0, children |-> <<>>]

\* BPlusTree(order)
default_order == 32
BPlusTree(order) ==
  [order |-> order, root |-> 1, size |-> 0, nodes |-> << LeafNode >>, exc |-> ""]

NewNode(t) == Len(t.nodes) + 1
\* the reference to node m once node n is dropped
Moved(n, m) == IF m > n THEN m - 1 ELSE m
\* the list f[1], ..., f[count]
RECURSIVE ListOf(_, _)
ListOf(f, count) == IF count = 0 THEN <<>> ELSE Append(ListOf(f, count - 1), f[count])
DropNode(t, n) ==
  [t EXCEPT !.root = Moved(n, @),
            !.nodes = ListOf([m \in 1..(Len(t.nodes) - 1) |->
                         LET old == t.nodes[IF m >= n THEN m + 1 ELSE m]
                         IN [old EXCEPT !.parent = Moved(n, @),
                                        !.next = Moved(n, @),
                                        !.prev = Moved(n, @),
                                        !.children = ListOf([i \in 1..Len(old.children) |->
                                                        Moved(n, old.children[i])],
                                                        Len(old.children))]],
                             Len(t.nodes) - 1)]
Raise(t, exc) == [t EXCEPT !.exc = exc]

_max_keys(t) == t.order - 1
\* no lower bound on the keys of a leaf
MinLeafKeysNone(t) == 0
_min_leaf_keys(t) == (_max_keys(t) + 1) \div 2
_min_internal_keys(t) == ((t.order + 1) \div 2) - 1
MinKeys(t, n) == IF t.nodes[n].leaf THEN _min_leaf_keys(t) ELSE _min_internal_keys(t)

RECURSIVE LeftmostFrom(_, _)
LeftmostFrom(t, n) ==
  IF t.nodes[n].leaf THEN n ELSE LeftmostFrom(t, At(t.nodes[n].children, 0))
_leftmost_leaf(t) == LeftmostFrom(t, t.root)

RECURSIVE FindLeafFrom(_, _, _)
FindLeafFrom(t, n, k) ==
  IF t.nodes[n].leaf THEN n
  ELSE FindLeafFrom(t, At(t.nodes[n].children, bisect_right(t.nodes[n].keys, k)), k)
_find_leaf(t, k) == FindLeafFrom(t, t.root, k)

\* _get_first_key: [exc, val]
RECURSIVE _get_first_key(_, _)
_get_first_key(t, n) ==
  IF t.nodes[n].leaf
  THEN IF t.nodes[n].keys = <<>> THEN [exc |-> "IndexError", val |-> 0]
       ELSE [exc |-> "", val |-> At(t.nodes[n].keys, 0)]
  ELSE IF t.nodes[n].children = <<>> THEN [exc |-> "IndexError", val |-> 0]
       ELSE _get_first_key(t, At(t.nodes[n].children, 0))

\* _sync_parent_keys(parent), from key i of parent on
RECURSIVE SyncFrom(_, _, _)
SyncFrom(t, parent, i) ==
  IF t.exc # "" \/ parent = 0 THEN t
  ELSE IF i >= Len(t.nodes[parent].keys) THEN SyncFrom(t, t.nodes[parent].parent, 0)
  ELSE LET first == _get_first_key(t, At(t.nodes[parent].children, i + 1))
       IN IF first.exc # "" THEN Raise(t, first.exc)
          ELSE SyncFrom([t EXCEPT !.nodes[parent].keys[i + 1] = first.val], parent, i + 1)
_sync_parent_keys(t, parent) == SyncFrom(t, parent, 0)

\* a split that leaves the parent of the children as it was
SetParentsSkipped(t, children, parent) == t

\* child.parent = parent for every child of the list
RECURSIVE SetParents(_, _, _)
SetParents(t, children, parent) ==
  IF children = <<>> THEN t
  ELSE SetParents([t EXCEPT !.nodes[Head(children)].parent = parent],
                  Tail(children), parent)

RECURSIVE _insert_into_parent(_, _, _, _)
RECURSIVE _split_internal(_, _)

_split_internal(t, node) ==
  LET n == t.nodes[node]
      mid_index == Len(n.keys) \div 2
      promote_key == At(n.keys, mid_index)
      sibling == NewNode(t)
      sibling_keys == SubSeq(n.keys, mid_index + 2, Len(n.keys))
      sibling_children == SubSeq(n.children, mid_index + 2, Len(n.children))
      node_children == SubSeq(n.children, 1, mid_index + 1)
      t1 == [t EXCEPT !.nodes = Append(@,
               [InternalNode EXCEPT !.keys = sibling_keys,
                                    !.children = sibling_children])]
      t2 == SetParents(t1, sibling_children, sibling)
      t3 == [t2 EXCEPT !.nodes[node].keys = SubSeq(n.keys, 1, mid_index),
                       !.nodes[node].children = node_children]
      t4 == SetParents(t3, node_children, node)
      t5 == [t4 EXCEPT !.nodes[sibling].parent = n.parent]
  IN _insert_into_parent(t5, node, promote_key, sibling)

_insert_into_parent(t, left, k, right) ==
  LET t1 == [t EXCEPT !.nodes[right].parent = t.nodes[left].parent]
  IN IF t.nodes[left].parent = 0
     THEN LET new_root == NewNode(t1)
          IN [t1 EXCEPT !.nodes = Append([@ EXCEPT ![left].parent = new_root,
                                                   ![right].parent = new_root],
                                           [InternalNode EXCEPT
                                              !.keys = << k >>,
                                              !.children = << left, right >>]),
                        !.root = new_root]
     ELSE
     LET parent == t.nodes[left].parent
         insert_pos == ListIndex(t1.nodes[parent].children, left) + 1
         t2 == [t1 EXCEPT !.nodes[parent].children = ListInsert(@, insert_pos, right),
                          !.nodes[parent].keys = ListInsert(@, insert_pos - 1, k)]
     IN IF Len(t2.nodes[parent].keys) > _max_keys(t2)
        THEN _split_internal(t2, parent)
        ELSE _sync_parent_keys(t2, parent)

\* the leaf after a new or a merged leaf left pointing at its old neighbour
LinkPrevSkipped(t, next, leaf) == t
\* if next is not None: next.prev = leaf
LinkPrev(t, next, leaf) ==
  IF next # 0 THEN [t EXCEPT !.nodes[next].prev = leaf] ELSE t

_split_leaf(t, leaf) ==
  LET n == t.nodes[leaf]
      mid == Len(n.keys) \div 2
      sibling == NewNode(t)
      sibling_node == [LeafNode EXCEPT !.keys = SubSeq(n.keys, mid + 1, Len(n.keys)),
                                       !.values = SubSeq(n.values, mid + 1, Len(n.values)),
                                       !.next = n.next,
                                       !.prev = leaf,
                                       !.parent = n.parent]
      t1 == [t EXCEPT !.nodes = Append([@ EXCEPT ![leaf].keys = SubSeq(n.keys, 1, mid),
                                                 ![leaf].values = SubSeq(n.values, 1, mid),
                                                 ![leaf].next = sibling],
                                       sibling_node)]
      t2 == LinkPrev(t1, n.next, sibling)
  IN _insert_into_parent(t2, leaf, At(sibling_node.keys, 0), sibling)

\* an insert that appends without looking at the bucket
NotInUnchecked(value, bucket) == TRUE
\* value not in bucket
NotIn(value, bucket) == value \notin Range(bucket)

\* BPlusTree.insert(key, value): the tree after the call
insert(t, k, value) ==
  LET leaf == _find_leaf(t, k)
      n == t.nodes[leaf]
      idx == bisect_left(n.keys, k)
  IN IF idx < Len(n.keys) /\ At(n.keys, idx) = k
     THEN IF NotIn(value, At(n.values, idx))
          THEN [t EXCEPT !.nodes[leaf].values[idx + 1] = Append(@, value),
                         !.size = @ + 1]
          ELSE t
     ELSE
     LET t1 == [t EXCEPT !.nodes[leaf].keys = ListInsert(@, idx, k),
                         !.nodes[leaf].values = ListInsert(@, idx, << value >>),
                         !.size = @ + 1]
     IN IF Len(t1.nodes[leaf].keys) > _max_keys(t1) THEN _split_leaf(t1, leaf) ELSE t1

\* BPlusTree.find(key): a copy of the bucket
find(t, k) ==
  LET n == t.nodes[_find_leaf(t, k)]
      idx == bisect_left(n.keys, k)
  IN IF idx < Len(n.keys) /\ At(n.keys, idx) = k THEN At(n.values, idx) ELSE <<>>

\* a range scan that leaves out the key equal to end
PastEndEarly(k, end) == k >= end
\* key > end, where the scan of find_range stops
PastEnd(k, end) == k > end

\* the loops of find_range: the keys of leaf current from index i on, then the
\* leaves after it
RECURSIVE FindRangeFrom(_, _, _, _, _, _)
FindRangeFrom(t, current, i, start, end, results) ==
  IF current = 0 THEN results
  ELSE IF i >= Len(t.nodes[current].keys)
  THEN FindRangeFrom(t, t.nodes[current].next, 0, start, end, results)
  ELSE IF PastEnd(At(t.nodes[current].keys, i), end) THEN results
  ELSE FindRangeFrom(t, current, i + 1, start, end,
                     IF At(t.nodes[current].keys, i) >= start
                     THEN results \o At(t.nodes[current].values, i)
                     ELSE results)

\* BPlusTree.find_range(start, end)
find_range(t, start, end) ==
  IF start > end THEN <<>>
  ELSE FindRangeFrom(t, _find_leaf(t, start), 0, start, end, <<>>)

\* the loops of items(): << key, bucket >> pairs in leaf-chain order
RECURSIVE ItemsFrom(_, _, _)
ItemsFrom(t, node, i) ==
  IF node = 0 THEN <<>>
  ELSE IF i >= Len(t.nodes[node].keys) THEN ItemsFrom(t, t.nodes[node].next, 0)
  ELSE << << At(t.nodes[node].keys, i), At(t.nodes[node].values, i) >> >>
         \o ItemsFrom(t, node, i + 1)
items(t) == ItemsFrom(t, _leftmost_leaf(t), 0)

_borrow_from_left(t, node, left, parent, index) ==
  LET t1 ==
        IF t.nodes[node].leaf
        THEN LET l == t.nodes[left]
                 moved_key == Last(l.keys)
             IN [t EXCEPT !.nodes[left].keys = SubSeq(@, 1, Len(@) - 1),
                          !.nodes[left].values = SubSeq(@, 1, Len(@) - 1),
                          !.nodes[node].keys = << moved_key >> \o @,
                          !.nodes[node].values = << Last(l.values) >> \o @,
                          !.nodes[parent].keys[index] = moved_key]
        ELSE LET l == t.nodes[left]
                 borrow_key == At(t.nodes[parent].keys, index - 1)
                 borrow_child == Last(l.children)
             IN [t EXCEPT !.nodes[left].children = SubSeq(@, 1, Len(@) - 1),
                          !.nodes[left].keys = SubSeq(@, 1, Len(@) - 1),
                          !.nodes[node].keys = << borrow_key >> \o @,
                          !.nodes[node].children = << borrow_child >> \o @,
                          !.nodes[borrow_child].parent = node,
                          !.nodes[parent].keys[index] = Last(l.keys)]
  IN _sync_parent_keys(t1, parent)

_borrow_from_right(t, node, right, parent, index) ==
  LET t1 ==
        IF t.nodes[node].leaf
        THEN LET r == t.nodes[right]
                 rest == Tail(r.keys)
             IN [t EXCEPT !.nodes[right].keys = rest,
                          !.nodes[right].values = Tail(@),
                          !.nodes[node].keys = Append(@, Head(r.keys)),
                          !.nodes[node].values = Append(@, Head(r.values)),
                          !.nodes[parent].keys[index + 1] =
                             IF rest # <<>> THEN Head(rest) ELSE @]
        ELSE LET r == t.nodes[right]
                 borrow_key == At(t.nodes[parent].keys, index)
                 borrow_child == Head(r.children)
             IN [t EXCEPT !.nodes[right].children = Tail(@),
                          !.nodes[right].keys = Tail(@),
                          !.nodes[node].keys = Append(@, borrow_key),
                          !.nodes[node].children = Append(@, borrow_child),
                          !.nodes[borrow_child].parent = node,
                          !.nodes[parent].keys[index + 1] = Head(r.keys)]
  IN _sync_parent_keys(t1, parent)

RECURSIVE _rebalance_after_delete(_, _)
RECURSIVE _merge_nodes(_, _, _, _, _)

_merge_nodes(t, left, right, parent, parent_index) ==
  LET r == t.nodes[right]
      t1 == IF t.nodes[left].leaf
            THEN LET ta == [t EXCEPT !.nodes[left].keys = @ \o r.keys,
                                     !.nodes[left].values = @ \o r.values,
                                     !.nodes[left].next = r.next]
                 IN LinkPrev(ta, r.next, left)
            ELSE SetParents(
                   [t EXCEPT !.nodes[left].keys =
                                (@ \o << At(t.nodes[parent].keys, parent_index) >>) \o r.keys,
                             !.nodes[left].children = @ \o r.children],
                   r.children, left)
      t2 == DropNode([t1 EXCEPT !.nodes[parent].keys = ListPop(@, parent_index),
                                !.nodes[parent].children = ListRemove(@, right)],
                     right)
      left2 == Moved(right, left)
      parent2 == Moved(right, parent)
  IN IF t2.nodes[parent2].parent = 0 /\ t2.nodes[parent2].keys = <<>>
     THEN DropNode([t2 EXCEPT !.root = left2, !.nodes[left2].parent = 0], parent2)
     ELSE _rebalance_after_delete(t2, parent2)

_rebalance_after_delete(t, node) ==
  LET n == t.nodes[node]
  IN IF n.parent = 0
     THEN IF ~n.leaf /\ Len(n.children) = 1
          THEN DropNode([t EXCEPT !.root = At(n.children, 0),
                                  !.nodes[At(n.children, 0)].parent = 0], node)
          ELSE t
     ELSE IF Len(n.keys) >= MinKeys(t, node) THEN _sync_parent_keys(t, n.parent)
     ELSE
     LET parent == n.parent
         children == t.nodes[parent].children
         index == ListIndex(children, node)
         left == IF index > 0 THEN At(children, index - 1) ELSE 0
         right == IF index + 1 < Len(children) THEN At(children, index + 1) ELSE 0
     IN IF left # 0 /\ Len(t.nodes[left].keys) > MinKeys(t, left)
        THEN _borrow_from_left(t, node, left, parent, index)
        ELSE IF right # 0 /\ Len(t.nodes[right].keys) > MinKeys(t, right)
        THEN _borrow_from_right(t, node, right, parent, index)
        ELSE IF left # 0 THEN _merge_nodes(t, left, node, parent, index - 1)
        ELSE IF right # 0 THEN _merge_nodes(t, node, right, parent, index)
        ELSE t

\* Python's None where a value is expected
None == null_value - 1

\* a remove that keeps the key of an emptied bucket
EmptiedNever(bucket) == FALSE
\* not bucket: the bucket has no value left
Emptied(bucket) == bucket = <<>>

\* BPlusTree.remove(key, value): [t, val]; value is None in remove(key)
remove(t, k, value) ==
  LET leaf == _find_leaf(t, k)
      n == t.nodes[leaf]
      idx == bisect_left(n.keys, k)
  IN IF idx >= Len(n.keys) \/ At(n.keys, idx) # k THEN [t |-> t, val |-> FALSE]
     ELSE
     LET bucket == At(n.values, idx)
     IN IF value # None /\ value \notin Range(bucket) THEN [t |-> t, val |-> FALSE]
        ELSE
        LET removed == IF value = None THEN bucket # <<>> ELSE TRUE
            bucket1 == IF value = None THEN <<>> ELSE ListRemove(bucket, value)
            t1 == [t EXCEPT !.size = @ - (Len(bucket) - Len(bucket1)),
                            !.nodes[leaf].values[idx + 1] = bucket1]
        IN IF ~Emptied(bucket1) THEN [t |-> t1, val |-> removed]
           ELSE [t |-> _rebalance_after_delete(
                         [t1 EXCEPT !.nodes[leaf].keys = ListPop(@, idx),
                                    !.nodes[leaf].values = ListPop(@, idx)], leaf),
                 val |-> removed]

\* ---------------------------------------------------------------- index.py
\* Index.indices is a list of num_columns trees, NoTree where the code holds
\* None. The operations return [index, exc] (and val): exc is the exception
\* that escapes the call.
NoTree == [order |-> 0, root |-> 0, size |-> 0, nodes |-> <<>>, exc |-> ""]
Indexed(ix, column) == At(ix, column).order # 0
Settled(t) == [t EXCEPT !.exc = ""]

\* Index.locate(column, value)
locate(ix, column, value) ==
  IF ~Indexed(ix, column) THEN <<>> ELSE find(At(ix, column), value)

\* a range lookup that stops at the first key
LocateBegin(ix, begin, end, column) == locate(ix, column, begin)
\* Index.locate_range(begin, end, column)
locate_range(ix, begin, end, column) ==
  IF ~Indexed(ix, column) THEN <<>> ELSE find_range(At(ix, column), begin, end)

\* the loop of Index.add, from column on
RECURSIVE IndexAddFrom(_, _, _, _)
IndexAddFrom(ix, rid, columns, column) ==
  IF column >= Len(ix) THEN [index |-> ix, exc |-> ""]
  ELSE IF ~Indexed(ix, column) THEN IndexAddFrom(ix, rid, columns, column + 1)
  ELSE IF column >= Len(columns) THEN [index |-> ix, exc |-> "IndexError"]
  ELSE IF At(columns, column) = None THEN IndexAddFrom(ix, rid, columns, column + 1)
  ELSE Let(insert(At(ix, column), At(columns, column), rid), LAMBDA t :
         IF t.exc # "" THEN [index |-> SetAt(ix, column, Settled(t)), exc |-> t.exc]
         ELSE IndexAddFrom(SetAt(ix, column, t), rid, columns, column + 1))
IndexAdd(ix, rid, columns) == IndexAddFrom(ix, rid, columns, 0)

\* the loop of Index.remove, from column on
RECURSIVE IndexRemoveFrom(_, _, _, _)
IndexRemoveFrom(ix, rid, columns, column) ==
  IF column >= Len(ix) THEN [index |-> ix, exc |-> ""]
  ELSE IF ~Indexed(ix, column) THEN IndexRemoveFrom(ix, rid, columns, column + 1)
  ELSE IF column >= Len(columns) THEN [index |-> ix, exc |-> "IndexError"]
  ELSE IF At(columns, column) = None THEN IndexRemoveFrom(ix, rid, columns, column + 1)
  ELSE Let(remove(At(ix, column), At(columns, column), rid).t, LAMBDA t :
         IF t.exc # "" THEN [index |-> SetAt(ix, column, Settled(t)), exc |-> t.exc]
         ELSE IndexRemoveFrom(SetAt(ix, column, t), rid, columns, column + 1))
IndexRemove(ix, rid, columns) == IndexRemoveFrom(ix, rid, columns, 0)

\* an update that moves nothing
SkipsUpdateAlways(old, new) == TRUE
\* old == new or old is None or new is None
SkipsUpdate(old, new) == old = new \/ old = None \/ new = None

\* the loop of Index.update, from column on
RECURSIVE IndexUpdateFrom(_, _, _, _, _)
IndexUpdateFrom(ix, rid, old_values, new_values, column) ==
  IF column >= Len(ix) THEN [index |-> ix, exc |-> ""]
  ELSE IF ~Indexed(ix, column)
  THEN IndexUpdateFrom(ix, rid, old_values, new_values, column + 1)
  ELSE IF column >= Len(old_values) \/ column >= Len(new_values)
  THEN [index |-> ix, exc |-> "IndexError"]
  ELSE
  LET old == At(old_values, column)
      new == At(new_values, column)
  IN IF SkipsUpdate(old, new)
     THEN IndexUpdateFrom(ix, rid, old_values, new_values, column + 1)
     ELSE Let(remove(At(ix, column), old, rid).t, LAMBDA t1 :
          Let(IF t1.exc # "" THEN t1 ELSE insert(t1, new, rid), LAMBDA t2 :
            IF t2.exc # "" THEN [index |-> SetAt(ix, column, Settled(t2)), exc |-> t2.exc]
            ELSE IndexUpdateFrom(SetAt(ix, column, t2), rid, old_values, new_values,
                                 column + 1)))
IndexUpdate(ix, rid, old_values, new_values) ==
  IndexUpdateFrom(ix, rid, old_values, new_values, 0)

\* _bulk_load over _iterate_existing_rows, from rid on: every rid below
\* num_base_records is read with get_record, a RuntimeError skips the rid, and
\* the row is the record from base_meta_columns on. (The ranges read hold base
\* records, so the reads leave the directory as it is.)   [tree, exc]
RECURSIVE BulkLoadFrom(_, _, _, _)
BulkLoadFrom(d, column_number, tree, rid) ==
  IF rid >= d.num_base_records THEN [tree |-> tree, exc |-> ""]
  ELSE
  Let(get_record_from_rid(d, rid), LAMBDA record :
    IF record.exc = "RuntimeError" THEN BulkLoadFrom(d, column_number, tree, rid + 1)
    ELSE IF record.exc # "" THEN [tree |-> tree, exc |-> record.exc]
    ELSE
    LET row == SubSeq(record.val, base_meta_columns + 1, Len(record.val))
    IN IF column_number >= Len(row) THEN BulkLoadFrom(d, column_number, tree, rid + 1)
       ELSE Let(insert(tree, At(row, column_number), rid), LAMBDA t :
              IF t.exc # "" THEN [tree |-> Settled(t), exc |-> t.exc]
              ELSE BulkLoadFrom(d, column_number, t, rid + 1)))
_bulk_load(d, column_number, tree) == BulkLoadFrom(d, column_number, tree, 0)

\* Index.create_index(column_number): [index, exc, val]
create_index(d, ix, column_number) ==
  IF ~(0 <= column_number /\ column_number < num_columns)
  THEN [index |-> ix, exc |-> "ValueError", val |-> FALSE]
  ELSE IF Indexed(ix, column_number) THEN [index |-> ix, exc |-> "", val |-> FALSE]
  ELSE Let(_bulk_load(d, column_number, BPlusTree(default_order)), LAMBDA loaded :
         [index |-> SetAt(ix, column_number, loaded.tree),
          exc |-> loaded.exc, val |-> loaded.exc = ""])

\* an index manager that protects no column
IsPrimaryKeyNever(column_number) == FALSE
\* column_number == self.table.key
IsPrimaryKey(column_number) == column_number = key

\* Index.drop_index(column_number): [index, exc, val]
drop_index(ix, column_number) ==
  IF IsPrimaryKey(column_number) THEN [index |-> ix, exc |-> "", val |-> FALSE]
  ELSE IF ~(0 <= column_number /\ column_number < Len(ix))
  THEN [index |-> ix, exc |-> "IndexError", val |-> FALSE]
  ELSE IF ~Indexed(ix, column_number) THEN [index |-> ix, exc |-> "", val |-> FALSE]
  ELSE [index |-> SetAt(ix, column_number, NoTree), exc |-> "", val |-> TRUE]

\* Index(table) of a table without records
Index == create_index(PageDirectory, [i \in 1..num_columns |-> NoTree], key).index

\* ---------------------------------------------------------------- query.py
\* The operations return [pd, index, exc, ok, val, rid, tail]: exc is
\* "Nontermination" when the call never returns and "" otherwise (every
\* exception is caught and turned into False); val is what the call returns,
\* the empty list with ok = FALSE where a select returns False; rid and tail
\* are the base RID and the tail RID the call has written, null_value when it
\* has written none.
Done(d, ix, val) ==
  [pd |-> d, index |-> ix, exc |-> "", ok |-> TRUE, val |-> val,
   rid |-> null_value, tail |-> null_value]
Refused(d, ix) == [Done(d, ix, <<>>) EXCEPT !.ok = FALSE]
Hangs(d, ix) == [Done(d, ix, <<>>) EXCEPT !.ok = FALSE, !.exc = "Nontermination"]
\* Record(key, columns) with its rid
Record(rid, primary_key, columns) ==
  [rid |-> rid, key |-> primary_key, columns |-> columns]

\* the duplicate check of Query.insert skipped
KeyExistsNever(ix, columns) == FALSE
\* the duplicate check of Query.insert: the primary-key column is indexed and
\* the index locates the key
KeyExists(ix, columns) ==
  Indexed(ix, key) /\ locate(ix, key, At(columns, key)) # <<>>

\* Query.insert(*columns)
QueryInsert(d, ix, columns, now) ==
  IF Len(columns) # num_columns THEN Done(d, ix, FALSE)
  ELSE IF \E i \in 1..Len(columns) : columns[i] = None THEN Done(d, ix, FALSE)
  ELSE IF KeyExists(ix, columns) THEN Done(d, ix, FALSE)
  ELSE
  Let(add_record(d, [i \in 1..base_meta_columns |-> null_value] \o columns,
                 FALSE, null_value, now), LAMBDA added :
    IF added.exc # "" THEN Done(added.pd, ix, FALSE)
    ELSE Let(IndexAdd(ix, added.val, columns), LAMBDA i :
           [Done(added.pd, i.index, i.exc = "") EXCEPT !.rid = added.val]))

\* Query.update(primary_key, *columns)
QueryUpdate(d, ix, primary_key, columns, now) ==
  IF Len(columns) # num_columns THEN Done(d, ix, FALSE)
  ELSE
  Let(locate(ix, key, primary_key), LAMBDA rids :
    IF rids = <<>> THEN Done(d, ix, FALSE)
    ELSE
    Let(get_cumulative_updated_record_from_base_rid(d, At(rids, 0)),
        LAMBDA current_record :
      IF current_record.exc = "Nontermination" THEN Hangs(d, ix)
      ELSE IF current_record.exc # "" THEN Done(d, ix, FALSE)
      ELSE
      LET base_rid == At(rids, 0)
          current_data == SubSeq(current_record.val, tail_meta_columns + 1,
                                 Len(current_record.val))
          tail_data == [i \in 1..Len(columns) |->
                          IF columns[i] = None THEN null_value ELSE columns[i]]
          new_data == [i \in 1..Len(columns) |->
                         IF columns[i] = None THEN current_data[i] ELSE columns[i]]
      IN Let(add_record(d, [i \in 1..tail_meta_columns |-> null_value] \o tail_data,
                        TRUE, base_rid, now), LAMBDA added :
           IF added.exc # "" THEN Done(added.pd, ix, FALSE)
           ELSE Let(IndexUpdate(ix, base_rid, current_data, new_data), LAMBDA i :
                  [Done(added.pd, i.index, i.exc = "") EXCEPT
                     !.rid = base_rid, !.tail = added.val]))))

\* Query.delete(primary_key)
QueryDelete(d, ix, primary_key) ==
  Let(locate(ix, key, primary_key), LAMBDA rids :
    IF rids = <<>> THEN Done(d, ix, FALSE)
    ELSE Let(delete_record(d, At(rids, 0)), LAMBDA r :
           IF r.exc # "" THEN Done(r.pd, ix, FALSE)
           ELSE [Done(r.pd, ix, r.val) EXCEPT !.rid = At(rids, 0)]))

\* the projection loop of select and select_version: [exc, val]
Project(data_columns, projected_columns_index) ==
  IF \E i \in 1..Len(projected_columns_index) :
       projected_columns_index[i] # 0 /\ i > Len(data_columns)
  THEN [exc |-> "IndexError", val |-> <<>>]
  ELSE [exc |-> "",
        val |-> [i \in 1..Len(projected_columns_index) |->
                   IF projected_columns_index[i] # 0 THEN data_columns[i] ELSE None]]

\* the loop of select_version over the rids located: [exc, val]
RECURSIVE SelectVersionOver(_, _, _, _, _)
SelectVersionOver(d, rids, projected_columns_index, relative_version, results) ==
  IF rids = <<>> THEN [exc |-> "", val |-> results]
  ELSE
  LET rid == Head(rids)
  IN
  Let(get_relative_version_of_record_from_base_rid(d, rid, relative_version - 1),
      LAMBDA first :
  Let(IF first.exc = "IndexError"
      THEN get_relative_version_of_record_from_base_rid(d, rid, 0)
      ELSE first, LAMBDA full_record :
    IF full_record.exc = "RuntimeError"
    THEN SelectVersionOver(d, Tail(rids), projected_columns_index,
                           relative_version, results)
    ELSE IF full_record.exc # "" THEN [exc |-> full_record.exc, val |-> results]
    ELSE
    LET data_columns == SubSeq(full_record.val, tail_meta_columns + 1,
                               Len(full_record.val))
        projected_data == Project(data_columns, projected_columns_index)
    IN IF key >= Len(data_columns) THEN [exc |-> "IndexError", val |-> results]
       ELSE IF projected_data.exc # "" THEN [exc |-> projected_data.exc, val |-> results]
       ELSE SelectVersionOver(d, Tail(rids), projected_columns_index, relative_version,
              Append(results, Record(rid, At(data_columns, key), projected_data.val)))))

\* Query.select_version(search_key, search_key_index, projected_columns_index,
\* relative_version)
QuerySelectVersion(d, ix, search_key, search_key_index, projected, relative_version) ==
  IF search_key_index >= Len(ix) THEN Refused(d, ix)
  ELSE
  Let(IF ~Indexed(ix, search_key_index)
      THEN create_index(d, ix, search_key_index)
      ELSE [index |-> ix, exc |-> "", val |-> FALSE], LAMBDA created :
    IF created.exc # "" THEN Refused(d, created.index)
    ELSE
    Let(SelectVersionOver(d, locate(created.index, search_key_index, search_key),
                          projected, relative_version, <<>>),
        LAMBDA found :
      IF found.exc = "Nontermination" THEN Hangs(d, created.index)
      ELSE IF found.exc # "" THEN Refused(d, created.index)
      ELSE Done(d, created.index, found.val)))

\* the loop of select over the rids located: [exc, val]
RECURSIVE SelectOver(_, _, _, _)
SelectOver(d, rids, projected_columns_index, results) ==
  IF rids = <<>> THEN [exc |-> "", val |-> results]
  ELSE
  LET rid == Head(rids)
  IN
  Let(get_cumulative_updated_record_from_base_rid(d, rid), LAMBDA full_record :
    IF full_record.exc = "RuntimeError"
    THEN SelectOver(d, Tail(rids), projected_columns_index, results)
    ELSE IF full_record.exc # "" THEN [exc |-> full_record.exc, val |-> results]
    ELSE
    LET data_columns == SubSeq(full_record.val, tail_meta_columns + 1,
                               Len(full_record.val))
        projected_data == Project(data_columns, projected_columns_index)
    IN IF key >= Len(data_columns) THEN [exc |-> "IndexError", val |-> results]
       ELSE IF projected_data.exc # "" THEN [exc |-> projected_data.exc, val |-> results]
       ELSE SelectOver(d, Tail(rids), projected_columns_index,
              Append(results, Record(rid, At(data_columns, key), projected_data.val))))

\* Query.select(search_key, search_key_index, projected_columns_index)
QuerySelect(d, ix, search_key, search_key_index, projected) ==
  IF search_key_index >= Len(ix) THEN Refused(d, ix)
  ELSE
  Let(IF ~Indexed(ix, search_key_index)
      THEN create_index(d, ix, search_key_index)
      ELSE [index |-> ix, exc |-> "", val |-> FALSE], LAMBDA created :
    IF created.exc # "" THEN Refused(d, created.index)
    ELSE
    Let(SelectOver(d, locate(created.index, search_key_index, search_key),
                   projected, <<>>),
        LAMBDA found :
      IF found.exc = "Nontermination" THEN Hangs(d, created.index)
      ELSE IF found.exc # "" THEN Refused(d, created.index)
      ELSE Done(d, created.index, found.val)))

\* the loop of sum over the rids located: [exc, total, found_any]
RECURSIVE SumRids(_, _, _, _, _)
SumRids(d, rids, aggregate_column_index, total, found_any) ==
  IF rids = <<>> THEN [exc |-> "", total |-> total, found_any |-> found_any]
  ELSE
  Let(get_cumulative_updated_record_from_base_rid(d, Head(rids)), LAMBDA full_record :
    IF full_record.exc = "RuntimeError"
    THEN SumRids(d, Tail(rids), aggregate_column_index, total, found_any)
    ELSE IF full_record.exc # ""
    THEN [exc |-> full_record.exc, total |-> total, found_any |-> found_any]
    ELSE
    LET data_columns == SubSeq(full_record.val, tail_meta_columns + 1,
                               Len(full_record.val))
    IN IF aggregate_column_index >= Len(data_columns)
       THEN [exc |-> "IndexError", total |-> total, found_any |-> found_any]
       ELSE LET value == At(data_columns, aggregate_column_index)
            IN IF value # None /\ value # null_value
               THEN SumRids(d, Tail(rids), aggregate_column_index, total + value, TRUE)
               ELSE SumRids(d, Tail(rids), aggregate_column_index, total, found_any))

\* Query.sum(start_range, end_range, aggregate_column_index): val is the
\* total, 0 with ok = FALSE where sum returns False
QuerySum(d, ix, start_range, end_range, aggregate_column_index) ==
  Let(locate_range(ix, start_range, end_range, key), LAMBDA rids :
    IF rids = <<>> THEN Done(d, ix, 0)
    ELSE Let(SumRids(d, rids, aggregate_column_index, 0, FALSE), LAMBDA summed :
           IF summed.exc = "Nontermination"
           THEN [Hangs(d, ix) EXCEPT !.val = 0]
           ELSE IF summed.exc # "" THEN [Done(d, ix, 0) EXCEPT !.ok = FALSE]
           ELSE Done(d, ix, IF summed.found_any THEN summed.total ELSE 0)))

\* an exception that leaves a Query call: exc is its name
Escapes(d, ix, exc) == [Done(d, ix, <<>>) EXCEPT !.ok = FALSE, !.exc = exc]

\* Query.increment(key, column), outside any try: the first record select
\* returns, its column plus one handed to update
QueryIncrement(d, ix, primary_key, column, now) ==
  Let(QuerySelect(d, ix, primary_key, key, [i \in 1..num_columns |-> 1]), LAMBDA selected :
    IF selected.exc = "Nontermination" THEN Hangs(selected.pd, selected.index)
    ELSE IF ~selected.ok THEN Escapes(selected.pd, selected.index, "TypeError")
    ELSE IF selected.val = <<>> THEN Escapes(selected.pd, selected.index, "IndexError")
    ELSE
    LET r == At(selected.val, 0)
    IN IF column >= num_columns \/ column >= Len(r.columns)
       THEN Escapes(selected.pd, selected.index, "IndexError")
       ELSE QueryUpdate(selected.pd, selected.index, primary_key,
                        [i \in 1..num_columns |->
                           IF i = column + 1 THEN At(r.columns, column) + 1 ELSE None],
                        now))

\* ------------------------------------------------------------------ state
\* pd:       the table's PageDirectory
\* index:    the table's Index: per column its tree, NoTree when the column
\*           is not indexed
\* ret:      the last call: its name, its rid and key arguments, the exception
\*           it raised ("" when none), what it returned, and what held just
\*           before it: again (delete_record: an earlier delete_record of the
\*           same rid returned True; tree insert and remove: the pair, or for
\*           remove(key) a pair of the key, was stored), tombstoned
\*           (delete_record: the
\*           indirection slot of the base record rid held DELETED), full
\*           (tail insert: the range held records_per_range tail records);
\*           same: the call left the directory and the index as they were;
\*           arg: a further argument (select: the column searched, sum: the
\*           column summed, its end_range in rid)
\*           before: the index as a call of Index.add, remove or update
\*           found it
\* lineage:  per base RID returned by add_record, the data it was inserted
\*           with and the tails add_record returned for it, oldest first, as
\*           [rid, data]                      (history: no operation reads it)
\* deleted:  the rids on which delete_record has returned True      (history)
\* tree:     a BPlusTree of its own, NoTree while none is constructed
\* pairs:    the (key, value) pairs inserted into tree and not removed since
\*                                                                   (history)
\* page:     a Page of its own
\* written:  the values page holds, slot by slot                     (history)
VARIABLES pd, index, ret, lineage, deleted, tree, pairs, page, written
vars == << pd, index, ret, lineage, deleted, tree, pairs, page, written >>

\* bound of the explored calls: the tail offsets handed out while several
\* ranges are filled
MaxTail == 1
\* one base row more than a range holds
MaxBase == records_per_range + 1

Columns == 0..(num_columns - 1)
\* int(time()) at the scaled width
Clock == {1}

\* The directory never compares a data value with anything but null_value, so
\* the rows written are told apart by a stamp: base row n holds 10*(i+1)+n in
\* column i, the t-th tail 50+10*(i+1)+t in the columns it updates.
BaseRow(n) == [i \in 1..num_columns |-> 10 * i + n]
TailRow(t, mask) ==
  [i \in 1..num_columns |-> IF (i - 1) \in mask THEN 50 + 10 * i + t ELSE null_value]
NullMeta(n) == [i \in 1..n |-> null_value]

\* the rids handed to the calls of Spec: the first base RID of range 0 and of
\* range 1 for tail inserts; for delete_record every base RID of range 0, the
\* first of range 1, -1 and the first tail RID; for the reads a RID of a range
\* never written
TailTargets == {encode_rid(0, 0, 0), encode_rid(1, 0, 0)}
DeleteRids == {-1, encode_rid(1, 0, 0), encode_rid(0, 1, 0)}
                \cup {encode_rid(0, 0, o) : o \in 0..(records_per_range - 1)}
ReadRids == {encode_rid(2, 0, 0)}
\* the rids handed to the calls of SpecChain: the base RIDs of the first page
ChainRids == {encode_rid(0, 0, o) : o \in 0..(records_per_page - 1)}

NoCall ==
  [op |-> "", rid |-> 0, key |-> 0, exc |-> "", val |-> 0, again |-> FALSE,
   tombstoned |-> FALSE, full |-> FALSE, same |-> TRUE, arg |-> 0, before |-> <<>>]
\* the call op(rid) of the directory, r what it came to
Call(op, rid, r) ==
  [NoCall EXCEPT !.op = op, !.rid = rid, !.exc = r.exc, !.val = r.val,
                 !.same = (r.pd = pd)]

\* Table(name, num_columns, key)
Init ==
  /\ pd = PageDirectory
  /\ index = Index
  /\ ret = NoCall
  /\ lineage = <<>>
  /\ deleted = {}
  /\ tree = NoTree
  /\ pairs = {}
  /\ page = Page
  /\ written = <<>>

TailOffset(range_id) ==
  IF range_id \in DOMAIN pd.tail_offsets THEN pd.tail_offsets[range_id] ELSE 0

RECURSIVE SumOver(_, _)
SumOver(f, keys) ==
  IF keys = {} THEN 0
  ELSE LET k == CHOOSE k \in keys : TRUE IN f[k] + SumOver(f, keys \ {k})

\* the tail offsets handed out so far, over all ranges
TailOffsetsUsed == SumOver(pd.tail_offsets, DOMAIN pd.tail_offsets)

\* the indirection slot of base row b holds DELETED
Tombstoned(b) == get_record_from_rid(pd, b).exc = "RuntimeError"

\* the records physically written into the tail segment of range_id
RECURSIVE RecordsIn(_)
RecordsIn(pages) ==
  IF pages = <<>> THEN 0
  ELSE At(Head(pages), rid_column).num_records + RecordsIn(Tail(pages))
TailsWritten(range_id) == RecordsIn(SegmentPages(pd, range_id, "tail"))

\* Table.insert_record(columns, is_tail=False)
InsertBase(maxBase) ==
  /\ pd.num_base_records < maxBase
  /\ \E now \in Clock :
       LET data == BaseRow(pd.num_base_records)
       IN \E r \in {add_record(pd, NullMeta(base_meta_columns) \o data, FALSE,
                                null_value, now)} :
          /\ pd' = r.pd
          /\ ret' = Call("add_base", null_value, r)
          /\ lineage' = IF r.exc = ""
                        THEN (r.val :> [data |-> data, tails |-> <<>>]) @@ lineage
                        ELSE lineage
  /\ UNCHANGED << index, deleted, tree, pairs, page, written >>

\* Table.insert_record(columns, is_tail=True, base_rid=base_rid), the data
\* columns updating the columns of mask
InsertTailOn(base_rid, mask, now) ==
  LET data == TailRow(pd.num_tail_records, mask)
  IN \E r \in {add_record(pd, NullMeta(tail_meta_columns) \o data, TRUE, base_rid, now)} :
     /\ pd' = r.pd
     /\ ret' = [Call("add_tail", base_rid, r) EXCEPT
                  !.full = (TailsWritten(decode_rid(base_rid)[1]) = records_per_range)]
     /\ lineage' = IF r.exc = "" /\ base_rid \in DOMAIN lineage
                   THEN [lineage EXCEPT ![base_rid].tails =
                           Append(@, [rid |-> r.val, data |-> data])]
                   ELSE lineage
     /\ UNCHANGED << index, deleted, tree, pairs, page, written >>

InsertTail(maxTail, targets) ==
  \E base_rid \in targets, mask \in SUBSET Columns, now \in Clock :
    /\ \/ TailOffsetsUsed < maxTail
       \/ TailOffset(decode_rid(base_rid)[1]) >= records_per_range
    /\ InsertTailOn(base_rid, mask, now)

\* Table.insert_record with a column list of the wrong length
InsertWrongLength ==
  \E is_tail \in BOOLEAN :
    \E r \in {add_record(pd, NullMeta(base_meta_columns), is_tail, null_value, 1)} :
       /\ pd' = r.pd
       /\ ret' = Call("add_wrong", null_value, r)
       /\ UNCHANGED << index, lineage, deleted, tree, pairs, page, written >>

\* Table.delete_record(rid)
DeleteRecord(rids) ==
  \E rid \in rids :
    \E r \in {delete_record(pd, rid)} :
       /\ pd' = r.pd
       /\ ret' = [Call("delete", rid, r) EXCEPT !.again = (rid \in deleted),
                                                !.tombstoned = Tombstoned(rid)]
       /\ deleted' = IF r.exc = "" /\ r.val THEN deleted \cup {rid} ELSE deleted
       /\ UNCHANGED << index, lineage, tree, pairs, page, written >>

\* Table.get_record(rid) and the two reconstructions: what they return is
\* get_record_from_rid(pd, rid) and the like; what they leave behind is the
\* directory entry of the range they looked up.
GetRecord(rids) ==
  \E rid \in rids :
    /\ pd' = TouchRange(pd, decode_rid(rid)[1])
    /\ UNCHANGED << index, ret, lineage, deleted, tree, pairs, page, written >>

\* the Table API over several ranges
Next ==
  \/ InsertBase(MaxBase)
  \/ InsertTail(MaxTail, TailTargets)
  \/ InsertWrongLength
  \/ DeleteRecord(DeleteRids)
  \/ GetRecord(ReadRids)

Spec == Init /\ [][Next]_vars

\* lineage chains inside one range: the base rows of the first page, and tail
\* inserts until the range's tail segment is full
NextChain ==
  \/ InsertBase(records_per_page)
  \/ InsertTail(records_per_range, ChainRids)
  \/ DeleteRecord(ChainRids)

SpecChain == Init /\ [][NextChain]_vars

\* bounds of the Query calls explored: rows inserted, updates written, and the
\* primary keys 1..MaxKey
MaxRows == 2
MaxUpdates == 1
MaxKey == 2
Keys == 1..MaxKey
\* the values of the other columns: what a row is inserted with, and what an
\* update writes
InsertVals == {7}
UpdateVals == {8}
Vals == InsertVals \cup UpdateVals
AllColumns == [i \in 1..num_columns |-> 1]
\* the rows Query.insert is called with, and the columns Query.update is
\* called with: None or a value per column
Rows == {r \in [1..num_columns -> Keys \cup Vals] :
           r[key + 1] \in Keys
           /\ \A i \in 1..num_columns : i # key + 1 => r[i] \in InsertVals}
Updates == {u \in [1..num_columns -> Keys \cup Vals \cup {None}] :
              /\ u[key + 1] \in Keys \cup {None}
              /\ \A i \in 1..num_columns : i # key + 1 => u[i] \in UpdateVals \cup {None}}

\* the Query call op(primary_key), r what it came to
QueryCall(op, primary_key, r) ==
  [NoCall EXCEPT !.op = op, !.key = primary_key, !.rid = r.rid, !.exc = r.exc,
                 !.val = r.val, !.same = (r.pd = pd /\ r.index = index)]
\* a call that never returns is the last one
Returned == ret.exc # "Nontermination"

\* Query.insert(*columns)
QInsert ==
  /\ Returned
  /\ pd.num_base_records < MaxRows
  /\ \E columns \in Rows, now \in Clock :
       \E r \in {QueryInsert(pd, index, columns, now)} :
          /\ pd' = r.pd
          /\ index' = r.index
          /\ ret' = QueryCall("insert", At(columns, key), r)
          /\ lineage' = IF r.rid # null_value
                        THEN (r.rid :> [data |-> columns, tails |-> <<>>]) @@ lineage
                        ELSE lineage
  /\ UNCHANGED << deleted, tree, pairs, page, written >>

\* Query.update(primary_key, *columns)
QUpdate ==
  /\ Returned
  /\ pd.num_tail_records < MaxUpdates
  /\ \E primary_key \in Keys, columns \in Updates, now \in Clock :
       \E r \in {QueryUpdate(pd, index, primary_key, columns, now)} :
          /\ pd' = r.pd
          /\ index' = r.index
          /\ ret' = QueryCall("update", primary_key, r)
          /\ lineage' = IF r.tail # null_value /\ r.rid \in DOMAIN lineage
                        THEN [lineage EXCEPT ![r.rid].tails =
                                Append(@, [rid |-> r.tail,
                                           data |-> [i \in 1..num_columns |->
                                                       IF columns[i] = None THEN null_value
                                                       ELSE columns[i]]])]
                        ELSE lineage
  /\ UNCHANGED << deleted, tree, pairs, page, written >>

\* Query.delete(primary_key)
QDelete ==
  /\ Returned
  /\ \E primary_key \in Keys :
       \E r \in {QueryDelete(pd, index, primary_key)} :
          /\ pd' = r.pd
          /\ index' = r.index
          /\ ret' = [QueryCall("delete_key", primary_key, r) EXCEPT
                       !.again = (r.rid \in deleted),
                       !.tombstoned = (r.rid # null_value /\ Tombstoned(r.rid))]
          /\ deleted' = IF r.val THEN deleted \cup {r.rid} ELSE deleted
  /\ UNCHANGED << lineage, tree, pairs, page, written >>

\* Query.select_version(search_key, search_key_index, [1] * num_columns,
\* relative_version), latest or one back
QSelectVersion ==
  /\ Returned
  /\ \E search_key_index \in Columns, relative_version \in {-1, 0} :
       \E search_key \in IF search_key_index = key THEN Keys ELSE Vals :
         \E r \in {QuerySelectVersion(pd, index, search_key, search_key_index,
                                       AllColumns, relative_version)} :
            /\ pd' = r.pd
            /\ index' = r.index
            /\ ret' = [QueryCall("select_version", search_key, r) EXCEPT
                         !.rid = relative_version]
  /\ UNCHANGED << lineage, deleted, tree, pairs, page, written >>

\* Query.select(search_key, search_key_index, [1] * num_columns)
QSelect ==
  /\ Returned
  /\ \E search_key_index \in Columns :
       \E search_key \in IF search_key_index = key THEN Keys ELSE Vals :
         \E r \in {QuerySelect(pd, index, search_key, search_key_index, AllColumns)} :
            /\ pd' = r.pd
            /\ index' = r.index
            /\ ret' = [QueryCall("select", search_key, r) EXCEPT
                         !.arg = search_key_index]
  /\ UNCHANGED << lineage, deleted, tree, pairs, page, written >>

\* Query.sum(start_range, end_range, aggregate_column_index)
QSum ==
  /\ Returned
  /\ \E start_range \in Keys, end_range \in Keys, aggregate_column_index \in Columns :
       \E r \in {QuerySum(pd, index, start_range, end_range, aggregate_column_index)} :
          /\ pd' = r.pd
          /\ index' = r.index
          /\ ret' = [QueryCall("sum", start_range, r) EXCEPT
                       !.rid = end_range, !.arg = aggregate_column_index]
  /\ UNCHANGED << lineage, deleted, tree, pairs, page, written >>

\* the Query API on one table
NextQuery == QInsert \/ QUpdate \/ QDelete \/ QSelectVersion \/ QSelect \/ QSum

SpecQuery == Init /\ [][NextQuery]_vars

\* Query.increment(key, column)
QIncrement ==
  /\ Returned
  /\ pd.num_tail_records < MaxUpdates
  /\ \E primary_key \in Keys, column \in Columns, now \in Clock :
       \E r \in {QueryIncrement(pd, index, primary_key, column, now)} :
          /\ pd' = r.pd
          /\ index' = r.index
          /\ ret' = [QueryCall("increment", primary_key, r) EXCEPT !.arg = column]
          /\ lineage' = IF r.tail # null_value /\ r.rid \in DOMAIN lineage
                        THEN [lineage EXCEPT ![r.rid].tails =
                                Append(@, [rid |-> r.tail,
                                           data |-> [i \in 1..num_columns |->
                                                       IF i = column + 1
                                                       THEN At(lineage[r.rid].data, column) + 1
                                                       ELSE null_value]])]
                        ELSE lineage
  /\ UNCHANGED << deleted, tree, pairs, page, written >>

\* the Query API with increment
NextFacade == NextQuery \/ QIncrement

SpecFacade == Init /\ [][NextFacade]_vars

\* the trees explored: the orders from the smallest BPlusTree accepts, the
\* keys 1..MaxTreeKey, and as values (RIDs) 1 and 2 under the keys up to
\* MaxDupKey, 1 under the others
MinOrder == 3
MaxOrder == 4
MaxTreeKey == 5
MaxDupKey == 1
Orders == MinOrder..MaxOrder
TreeKeys == 1..MaxTreeKey
TreeValues(k) == IF k <= MaxDupKey THEN {1, 2} ELSE {1}

\* BPlusTree(order)
InitTree ==
  /\ pd = PageDirectory
  /\ index = Index
  /\ ret = NoCall
  /\ lineage = <<>>
  /\ deleted = {}
  /\ tree \in {BPlusTree(order) : order \in Orders}
  /\ pairs = {}
  /\ page = Page
  /\ written = <<>>

\* the call op(k, value) of the tree, t the tree it leaves, val what it returns
TreeCall(op, k, value, t, val) ==
  [NoCall EXCEPT !.op = op, !.key = k, !.rid = value, !.exc = t.exc, !.val = val,
                 !.same = (Settled(t) = tree)]

\* BPlusTree.insert(key, value)
TreeInsert ==
  \E k \in TreeKeys :
    \E value \in TreeValues(k) :
      \E t \in {insert(tree, k, value)} :
         /\ tree' = Settled(t)
         /\ ret' = [TreeCall("tree_insert", k, value, t, 0) EXCEPT
                      !.again = (<< k, value >> \in pairs)]
         /\ pairs' = pairs \cup {<< k, value >>}
         /\ UNCHANGED << pd, index, lineage, deleted, page, written >>

\* BPlusTree.remove(key, value), and remove(key) where value is None
TreeRemove ==
  \E k \in TreeKeys :
    \E value \in TreeValues(k) \cup {None} :
      \E r \in {remove(tree, k, value)} :
         /\ tree' = Settled(r.t)
         /\ ret' = [TreeCall("tree_remove", k, value, r.t, r.val) EXCEPT
                      !.again = (\E p \in pairs : p[1] = k /\ value \in {None, p[2]})]
         /\ pairs' = {p \in pairs : ~(p[1] = k /\ value \in {None, p[2]})}
         /\ UNCHANGED << pd, index, lineage, deleted, page, written >>

\* the BPlusTree API on one tree
NextTree == TreeInsert \/ TreeRemove

SpecTree == InitTree /\ [][NextTree]_vars

\* the values appended to the page: the two ends of the signed range of a
\* slot, the tombstone value, 0 and 1..MaxPageValue
MaxPageValue == 2
PageValues == {null_value, deleted_record_value, 0, -null_value - 1} \cup 1..MaxPageValue
\* the slots and range ends handed to read and read_range
PageSlots == -1..(max_slots + 1)

\* the call op(arg, val) of the page
PageCall(op, arg, val) == [NoCall EXCEPT !.op = op, !.arg = arg, !.val = val]

\* Page.write(value)
PWrite ==
  \E value \in PageValues :
    \E r \in {PageWriteReturn(page)} :
      /\ page' = PageWrite(page, value)
      /\ written' = IF r.full THEN written ELSE Append(written, value)
      /\ ret' = [PageCall("write", value, r.val) EXCEPT
                   !.full = r.full, !.same = (page' = page)]
      /\ UNCHANGED << pd, index, lineage, deleted, tree, pairs >>

\* Page.write_slot(slot, value)
PWriteSlot ==
  \E slot \in PageSlots :
    \E value \in PageValues :
      /\ page' = IF PageWriteSlotOk(page, slot) THEN PageWriteSlot(page, slot, value)
                 ELSE page
      /\ written' = IF PageWriteSlotOk(page, slot) THEN SetAt(written, slot, value)
                    ELSE written
      /\ ret' = [PageCall("write_slot", slot, value) EXCEPT
                   !.exc = IF PageWriteSlotOk(page, slot) THEN "" ELSE "IndexError",
                   !.same = (page' = page)]
      /\ UNCHANGED << pd, index, lineage, deleted, tree, pairs >>

\* Page.read(slot)
PRead ==
  \E slot \in PageSlots :
    /\ ret' = IF PageReadOk(page, slot)
              THEN PageCall("read", slot, PageRead(page, slot))
              ELSE [PageCall("read", slot, 0) EXCEPT !.exc = "IndexError"]
    /\ UNCHANGED << pd, index, lineage, deleted, tree, pairs, page, written >>

\* Page.read_range(start, end), and read_range(start) where end is None
PReadRange ==
  \E start \in PageSlots :
    \E end \in PageSlots \cup {None} :
      \E e \in {IF end = None THEN page.num_records ELSE end} :
        /\ ret' = IF PageReadRangeOk(page, start, e)
                  THEN [PageCall("read_range", start, PageReadRange(page, start, e))
                          EXCEPT !.key = end]
                  ELSE [PageCall("read_range", start, <<>>) EXCEPT
                          !.key = end, !.exc = "IndexError"]
        /\ UNCHANGED << pd, index, lineage, deleted, tree, pairs, page, written >>

\* the Page API on one fresh page
NextPage == PWrite \/ PWriteSlot \/ PRead \/ PReadRange

SpecPage == Init /\ [][NextPage]_vars

\* bound of the explored calls: the tails written while tail inserts hand in
\* a schema_encoding of their own
MaxSchemaTails == 2
\* what a caller hands in in the schema_encoding slot of a tail: NULL, no bit
\* and every bit
PassedSchemas == {null_value, 0, 2 ^ num_columns - 1}

\* Table.insert_record(columns, is_tail=True, base_rid=base_rid) with a
\* schema_encoding slot filled in by the caller
TailWithSchema ==
  /\ Returned
  /\ pd.num_tail_records < MaxSchemaTails
  /\ \E base_rid \in ChainRids, mask \in SUBSET Columns, schema \in PassedSchemas,
        now \in Clock :
       LET data == TailRow(pd.num_tail_records, mask)
       IN \E r \in {add_record(pd, SetAt(NullMeta(tail_meta_columns),
                                          schema_encoding_column, schema) \o data,
                                TRUE, base_rid, now)} :
          /\ pd' = r.pd
          /\ ret' = [Call("add_tail", base_rid, r) EXCEPT !.arg = schema]
          /\ lineage' = IF r.exc = "" /\ base_rid \in DOMAIN lineage
                        THEN [lineage EXCEPT ![base_rid].tails =
                                Append(@, [rid |-> r.val, data |-> data])]
                        ELSE lineage
  /\ UNCHANGED << index, deleted, tree, pairs, page, written >>

\* tails written through Table and through Query.update on one table
NextTails == QInsert \/ QUpdate \/ TailWithSchema

SpecTails == Init /\ [][NextTails]_vars

\* the rows a table is loaded with: row n has n + 1 in the key column and
\* one of LoadValues, the NULL sentinel among them, in every other column
LoadValue == 7
LoadValues == {LoadValue, null_value}
LoadRow(n, v) == [i \in 1..num_columns |-> IF i = key + 1 THEN n + 1 ELSE v]
\* the rids handed to delete_record: one of the first range, and the first of
\* the second range
LoadDeleteRids == {encode_rid(0, 0, 1), encode_rid(1, 0, 0)}
\* the columns handed to create_index and drop_index, one past the last
LoadColumns == 0..num_columns

\* Table.insert_record(columns) of a base row
LInsert ==
  /\ pd.num_base_records < MaxBase
  /\ \E v \in LoadValues, now \in Clock :
       LET data == LoadRow(pd.num_base_records, v)
       IN \E r \in {add_record(pd, NullMeta(base_meta_columns) \o data, FALSE,
                                null_value, now)} :
          /\ pd' = r.pd
          /\ ret' = Call("add_base", null_value, r)
          /\ lineage' = IF r.exc = ""
                        THEN (r.val :> [data |-> data, tails |-> <<>>]) @@ lineage
                        ELSE lineage
  /\ UNCHANGED << index, deleted, tree, pairs, page, written >>

\* the call op(column_number) of the index manager, r what it came to
IndexCall(op, column_number, r) ==
  [NoCall EXCEPT !.op = op, !.arg = column_number, !.exc = r.exc, !.val = r.val,
                 !.again = (column_number \in Columns /\ Indexed(index, column_number)),
                 !.same = (r.index = index)]

\* Index.create_index(column_number)
LCreate ==
  \E column_number \in LoadColumns :
    \E r \in {create_index(pd, index, column_number)} :
      /\ index' = r.index
      /\ ret' = IndexCall("create_index", column_number, r)
      /\ UNCHANGED << pd, lineage, deleted, tree, pairs, page, written >>

\* Index.drop_index(column_number)
LDrop ==
  \E column_number \in LoadColumns :
    \E r \in {drop_index(index, column_number)} :
      /\ index' = r.index
      /\ ret' = IndexCall("drop_index", column_number, r)
      /\ UNCHANGED << pd, lineage, deleted, tree, pairs, page, written >>

\* a table filled and tombstoned through Table, its indexes created and
\* dropped through Index
NextLoad == LInsert \/ DeleteRecord(LoadDeleteRids) \/ LCreate \/ LDrop

SpecLoad == Init /\ [][NextLoad]_vars

\* the rids and the column lists handed to Index.add, remove and update: a
\* value, another value, the NULL sentinel and None in every column
OtherValue == 8
IndexRids == {0, 1}
IndexValues == {None, null_value, LoadValue, OtherValue}
IndexLists == [1..num_columns -> IndexValues]
IndexPresent == [1..num_columns -> {None, LoadValue, OtherValue}]

\* the entries the trees of an index manager hold, over all columns
RECURSIVE EntriesFrom(_, _)
EntriesFrom(ix, column) ==
  IF column >= Len(ix) THEN 0
  ELSE At(ix, column).size + EntriesFrom(ix, column + 1)
\* bound of the explored calls: the entries the index holds when a call that
\* can add one is made
MaxEntries == 3

\* the call op(rid, columns) of the index manager, r what it came to
MutationCall(op, rid, columns, r) ==
  [NoCall EXCEPT !.op = op, !.rid = rid, !.val = columns, !.exc = r.exc,
                 !.same = (r.index = index), !.before = index]

\* Index.add(rid, columns)
XAdd ==
  /\ EntriesFrom(index, 0) < MaxEntries
  /\ \E rid \in IndexRids, columns \in IndexLists :
      \E r \in {IndexAdd(index, rid, columns)} :
        /\ index' = r.index
        /\ ret' = MutationCall("index_add", rid, columns, r)
        /\ UNCHANGED << pd, lineage, deleted, tree, pairs, page, written >>

\* Index.remove(rid, columns)
XRemove ==
  \E rid \in IndexRids, columns \in IndexPresent :
    \E r \in {IndexRemove(index, rid, columns)} :
      /\ index' = r.index
      /\ ret' = MutationCall("index_remove", rid, columns, r)
      /\ UNCHANGED << pd, lineage, deleted, tree, pairs, page, written >>

\* Index.update(rid, old_values, new_values)
XUpdate ==
  /\ EntriesFrom(index, 0) < MaxEntries
  /\ \E rid \in IndexRids, old_values \in IndexPresent, new_values \in IndexPresent :
      \E r \in {IndexUpdate(index, rid, old_values, new_values)} :
        /\ index' = r.index
        /\ ret' = [MutationCall("index_update", rid, new_values, r) EXCEPT
                     !.arg = old_values]
        /\ UNCHANGED << pd, lineage, deleted, tree, pairs, page, written >>

\* the Index API on a table without records
NextIndex == XAdd \/ XRemove \/ XUpdate \/ LCreate \/ LDrop

SpecIndex == Init /\ [][NextIndex]_vars

\* the triples handed to encode_rid: ranges 0..MaxRange, both segments and
\* every offset of a segment
MaxRange == 15
RidTriples == (0..MaxRange) \X {0, 1} \X (0..(records_per_range - 1))

\* the call op(range_id, segment, offset) of the codec, val what it returns
RidCall(op, range_id, segment, offset, val) ==
  [NoCall EXCEPT !.op = op, !.key = range_id, !.arg = segment, !.rid = offset,
                 !.val = val]

\* PageDirectory.encode_rid(range_id, segment, offset)
RidEncode ==
  \E t \in RidTriples :
    /\ ret' = RidCall("encode_rid", t[1], t[2], t[3], encode_rid(t[1], t[2], t[3]))
    /\ UNCHANGED << pd, index, lineage, deleted, tree, pairs, page, written >>

\* PageDirectory.decode_rid(rid) of the RID the last call encoded
RidDecode ==
  /\ ret.op = "encode_rid"
  /\ ret' = RidCall("decode_rid", ret.key, ret.arg, ret.rid, decode_rid(ret.val))
  /\ UNCHANGED << pd, index, lineage, deleted, tree, pairs, page, written >>

\* the RID codec
NextRid == RidEncode \/ RidDecode

SpecRid == Init /\ [][NextRid]_vars

\* ----------------------------------------------------------------- claims
\* the rows add_record has returned a base RID for
BaseRows == DOMAIN lineage
TailsOf(b) == lineage[b].tails
DataOf(record) == SubSeq(record, tail_meta_columns + 1, Len(record))
MetaOf(record) == SubSeq(record, 1, tail_meta_columns)

\* the data of row b after its first count tails, applied oldest first, each
\* overwriting the columns it holds a value for
RECURSIVE AfterTails(_, _)
AfterTails(b, count) ==
  IF count = 0 THEN lineage[b].data
  ELSE LET before == AfterTails(b, count - 1)
           t == TailsOf(b)[count].data
       IN [i \in 1..num_columns |-> IF t[i] # null_value THEN t[i] ELSE before[i]]

\* column i (from 1) of row b: the value of the most recently inserted tail
\* that holds one, the base value when no tail does
LatestValue(b, i) ==
  LET holders == {j \in 1..Len(TailsOf(b)) : TailsOf(b)[j].data[i] # null_value}
  IN IF holders = {} THEN lineage[b].data[i]
     ELSE TailsOf(b)[CHOOSE j \in holders : \A h \in holders : h <= j].data[i]

\* C1: for every base row that is not tombstoned,
\* get_cumulative_updated_record(base_rid) returns, for every data column, the
\* value of the most recently inserted tail holding one, or the base value.
C1_CumulativeIsLatest ==
  \A b \in BaseRows :
    ~Tombstoned(b) =>
      LET r == get_cumulative_updated_record_from_base_rid(pd, b)
      IN /\ r.exc = ""
         /\ \A i \in 1..num_columns : DataOf(r.val)[i] = LatestValue(b, i)

\* C2: every RID a successful add_record returned reads back, at any later
\* point, as a record whose rid field is that RID (a base RID: while the row is
\* not tombstoned).
C2_RidReadsBack ==
  \A b \in BaseRows :
    /\ ~Tombstoned(b) =>
         LET r == get_record_from_rid(pd, b)
         IN r.exc = "" /\ At(r.val, rid_column) = b
    /\ \A j \in 1..Len(TailsOf(b)) :
         LET r == get_record_from_rid(pd, TailsOf(b)[j].rid)
         IN r.exc = "" /\ At(r.val, rid_column) = TailsOf(b)[j].rid

\* the chain walk of get_relative_version_of_record(b, version), version
\* neither 0 nor -1
WalkOf(b) ==
  GatherTails(pd, At(get_record_from_rid(pd, b).val, indirection_column), <<>>, <<>>)

\* C3: for a base row with tails, the chain walk of
\* get_relative_version_of_record ends, having read each tail at most once and
\* never the base record.
C3_WalkEnds ==
  \A b \in BaseRows :
    (~Tombstoned(b) /\ Len(TailsOf(b)) >= 1) =>
       /\ WalkOf(b).exc # "Nontermination"
       /\ b \notin Range(WalkOf(b).rids)

\* the versions asked for: latest minus 1..3, and the first 1..3 tails
Versions == {-4, -3, -2, 1, 2, 3}
ApplyCount(version, n) ==
  IF version < -1 THEN Max(0, n - (-1 - version)) ELSE Min(version, n)

\* C4: get_relative_version_of_record(b, version) returns the shaped base with
\* exactly the first max(0, n - k) tails applied oldest first (version < -1,
\* k = -1 - version), the first min(version, n) tails for version > 0.
C4_RelativeVersion ==
  \A b \in BaseRows : \A version \in Versions :
    ~Tombstoned(b) =>
      LET r == get_relative_version_of_record_from_base_rid(pd, b, version)
          base == get_record_from_rid(pd, b).val
      IN /\ r.exc = ""
         /\ MetaOf(r.val) = MetaOf(ShapedBase(base))
         /\ DataOf(r.val) = AfterTails(b, ApplyCount(version, Len(TailsOf(b))))

\* C6: delete_record(rid) of a base RID add_record produced, in any range,
\* returns true, and get_record(rid) fails with RuntimeError from then on.
C6_DeleteTombstones ==
  /\ (ret.op = "delete" /\ ret.rid \in BaseRows) => (ret.exc = "" /\ ret.val = TRUE)
  /\ \A b \in BaseRows \cap deleted : get_record_from_rid(pd, b).exc = "RuntimeError"

\* C7: delete_record(rid) on a base record whose indirection already holds
\* DELETED returns true and leaves the directory as it was.
C7_DeleteIdempotent ==
  (ret.op = "delete" /\ ret.rid \in BaseRows /\ ret.tombstoned)
    => (ret.exc = "" /\ ret.val = TRUE /\ ret.same)

\* C8: once delete_record(rid) has returned true for a base record, a further
\* delete_record(rid) returns False.
C8_SecondDeleteFalse ==
  (ret.op = "delete" /\ ret.rid \in BaseRows /\ ret.again) => ret.val = FALSE

\* C9: when the range of base_rid holds records_per_range tail records, a tail
\* add_record for base_rid raises RuntimeError (tail range full) and leaves the
\* whole directory, offsets, counters and pages, as it was.
C9_TailRangeFull ==
  (ret.op = "add_tail" /\ ret.full) => (ret.exc = "RuntimeError" /\ ret.same)

C9_Witness ==
  /\ ret.op = "add_tail" /\ ret.full /\ ret.exc = "RuntimeError"
  /\ TailsWritten(0) = records_per_range
  /\ \E b \in BaseRows : b = ret.rid /\ ~Tombstoned(b) /\ Len(TailsOf(b)) >= 1

\* what select_version is to return for base row b: one record of the data
RowRecord(b, data) == << Record(b, At(data, key), data) >>

\* C5: after a Query.update of an existing key that leaves the key as it is,
\* select_version(key, key column, all columns, 0) returns the row with the
\* update applied and select_version(key, key column, all columns, -1) returns
\* one record: the row as it was just before that update.
C5_SelectVersion ==
  (ret.op = "update" /\ ret.val = TRUE /\ LatestValue(ret.rid, key + 1) = ret.key) =>
     LET b == ret.rid
         n == Len(TailsOf(b))
         latest == QuerySelectVersion(pd, index, ret.key, key, AllColumns, 0)
         before == QuerySelectVersion(pd, index, ret.key, key, AllColumns, -1)
     IN /\ latest.exc = "" /\ latest.ok /\ latest.val = RowRecord(b, AfterTails(b, n))
        /\ before.exc = "" /\ before.ok /\ before.val = RowRecord(b, AfterTails(b, n - 1))

\* the base rows not tombstoned
LiveRows == {b \in BaseRows : ~Tombstoned(b)}
\* the buckets of the primary-key index
KeyBuckets == {At(items(At(index, key)), i)[2] :
                 i \in 0..(Len(items(At(index, key))) - 1)}

\* C10: after any sequence of Query.insert, Query.update and Query.delete, no
\* two base rows that are not tombstoned have the same current primary-key
\* value, and every bucket of the primary-key index holds at most one RID.
C10_PrimaryKeyUnique ==
  /\ \A b1 \in LiveRows : \A b2 \in LiveRows :
       b1 # b2 => LatestValue(b1, key + 1) # LatestValue(b2, key + 1)
  /\ \A bucket \in KeyBuckets : Len(bucket) <= 1

\* the rows Query.insert can be called with for primary key k
RowsOf(k) == {row \in Rows : At(row, key) = k}
\* a base row that is not tombstoned has k as its current primary key
KeyIsLive(k) == \E b \in LiveRows : LatestValue(b, key + 1) = k

\* C11: Query.insert of a row whose primary key a live row already has
\* returns False and writes nothing: the directory (pages, offsets, counters)
\* and the index are as before the call.
C11_DuplicateInsertRefused ==
  \A k \in Keys : KeyIsLive(k) =>
    \A row \in RowsOf(k) : \A now \in Clock :
      LET r == QueryInsert(pd, index, row, now)
      IN r.exc = "" /\ r.val = FALSE /\ r.pd = pd /\ r.index = index

C11_Witness ==
  /\ ret.op = "insert" /\ ret.val = FALSE /\ ret.same
  /\ KeyIsLive(ret.key)
  /\ pd.num_base_records >= 1 /\ pd.num_base_records < MaxRows

\* Query.select(k, key column, all columns) in the current state
SelectKey(k) == QuerySelect(pd, index, k, key, AllColumns)

\* C12: after Query.delete(k) has returned true: index.locate(key column, k)
\* is empty, Query.select(k, key column, ...) returns [], the indirection slot
\* of the base record holds DELETED, a second Query.delete(k) returns False,
\* and every row of another key is still returned by select.
C12_DeleteByKey ==
  (ret.op = "delete_key" /\ ret.val = TRUE) =>
     /\ locate(index, key, ret.key) = <<>>
     /\ SelectKey(ret.key).ok /\ SelectKey(ret.key).val = <<>>
     /\ Tombstoned(ret.rid)
     /\ QueryDelete(pd, index, ret.key).val = FALSE
     /\ \A b \in LiveRows :
          LET k == LatestValue(b, key + 1)
          IN k # ret.key =>
               \E i \in 1..Len(SelectKey(k).val) : SelectKey(k).val[i].rid = b

\* C13: after any sequence of Query.insert, Query.update and Query.delete, for
\* every indexed column c and value v, index.locate(c, v) holds exactly the
\* RIDs of the base rows that are not tombstoned and whose current value in
\* column c is v.
C13_IndexInSync ==
  \A c \in Columns : Indexed(index, c) =>
    \A v \in Keys \cup Vals :
      Range(locate(index, c, v)) = {b \in LiveRows : LatestValue(b, c + 1) = v}

\* the rows that are not tombstoned and whose current primary key is in [lo, hi]
RowsBetween(lo, hi) ==
  {b \in LiveRows : lo <= LatestValue(b, key + 1) /\ LatestValue(b, key + 1) <= hi}
\* the sum of the current values of column c (from 0) over those rows
CurrentSum(lo, hi, c) ==
  SumOver([b \in RowsBetween(lo, hi) |-> LatestValue(b, c + 1)], RowsBetween(lo, hi))

TailSchema(data) == build_schema_encoding(NullMeta(tail_meta_columns) \o data)
\* the bitwise OR of the schema encodings of the first count tails of row b
RECURSIVE SchemaOfTails(_, _)
SchemaOfTails(b, count) ==
  IF count = 0 THEN 0
  ELSE BitOr(SchemaOfTails(b, count - 1), TailSchema(TailsOf(b)[count].data))
\* the schema_encoding slot of base record b
BaseSchema(b) == At(get_record_from_rid(pd, b).val, schema_encoding_column)

\* C15: the schema_encoding slot of every base record that is not tombstoned
\* is the bitwise OR of the schema encodings of the tails inserted for it, 0
\* when there is none (so no update clears a bit).
C15_SchemaIsOrOfTails ==
  \A b \in BaseRows :
    ~Tombstoned(b) => BaseSchema(b) = SchemaOfTails(b, Len(TailsOf(b)))

C15_Witness ==
  /\ ret.op = "add_tail" /\ ret.exc = ""
  /\ \E b \in BaseRows :
       /\ b = ret.rid /\ ~Tombstoned(b) /\ Len(TailsOf(b)) >= 2
       /\ TailSchema(TailsOf(b)[1].data) = 2 ^ (num_columns - 1)
       /\ TailSchema(Last(TailsOf(b)).data) = 1
       /\ BaseSchema(b) = 2 ^ (num_columns - 1) + 1
  /\ \E b \in BaseRows : ~Tombstoned(b) /\ TailsOf(b) = <<>> /\ BaseSchema(b) = 0

\* the values stored under key k
Bucket(k) == {p[2] : p \in {q \in pairs : q[1] = k}}
StoredKeys == {p[1] : p \in pairs}
\* the buckets of the keys lo..hi as find holds them, in ascending key order
RECURSIVE BucketsBetween(_, _)
BucketsBetween(lo, hi) ==
  IF lo > hi THEN <<>> ELSE find(tree, lo) \o BucketsBetween(lo + 1, hi)
\* the tree has three levels: an internal node below the root
Deep == \E n \in DOMAIN tree.nodes :
          ~tree.nodes[n].leaf /\ tree.nodes[n].parent # 0
\* the bounds a range query is asked with
Probes == 0..(MaxTreeKey + 1)

\* C16: for a tree reached by any sequence of insert and remove, and any lo,
\* hi: find_range(lo, hi) holds exactly the values stored under the keys k
\* with lo <= k <= hi, bucket after bucket in ascending key order, and is
\* empty when lo > hi.
C16_FindRange ==
  /\ \A k \in Probes :
       /\ Range(find(tree, k)) = Bucket(k)
       /\ Len(find(tree, k)) = Cardinality(Bucket(k))
  /\ \A lo \in Probes : \A hi \in Probes :
       find_range(tree, lo, hi) = BucketsBetween(lo, hi)

C16_Witness ==
  /\ ret.op = "tree_remove" /\ ret.val = TRUE /\ Deep
  /\ \E lo \in TreeKeys : \E hi \in TreeKeys :
       /\ lo < hi /\ lo - 1 \in StoredKeys /\ hi + 1 \in StoredKeys
       /\ Len(find_range(tree, lo, hi)) >= 3
       /\ Len(find_range(tree, lo, hi)) < tree.size
       /\ tree.nodes[_find_leaf(tree, lo)].next # 0
       /\ _find_leaf(tree, lo) # _find_leaf(tree, hi)

\* the nodes of the subtree of n
RECURSIVE NodesUnder(_)
NodesUnder(n) ==
  {n} \cup UNION {NodesUnder(tree.nodes[n].children[i]) :
                    i \in 1..Len(tree.nodes[n].children)}
Leaves == {n \in NodesUnder(tree.root) : tree.nodes[n].leaf}
KeyCount(n) == Len(tree.nodes[n].keys)
\* ceil(m / 2)
HalfUp(m) == (m + 1) \div 2

\* C17: in a tree of order m >= 3, after any sequence of insert and remove,
\* every leaf other than the root holds between ceil(m/2) - 1 and m - 1 keys,
\* and no leaf at all holds more than m - 1 keys.
C17_LeafOccupancy ==
  \A n \in Leaves :
    /\ KeyCount(n) <= tree.order - 1
    /\ n # tree.root => KeyCount(n) >= HalfUp(tree.order) - 1

C17_Witness ==
  /\ ret.op = "tree_remove" /\ ret.val = TRUE /\ ~ret.same
  /\ Deep
  /\ \E n \in Leaves : KeyCount(n) = HalfUp(tree.order) - 1
  /\ \E n \in Leaves : KeyCount(n) = tree.order - 1

\* the leaves from n on along next, at most fuel of them
RECURSIVE ChainFrom(_, _)
ChainFrom(n, fuel) ==
  IF n = 0 \/ fuel = 0 THEN <<>>
  ELSE << n >> \o ChainFrom(tree.nodes[n].next, fuel - 1)
LeafChain == ChainFrom(_leftmost_leaf(tree), Len(tree.nodes) + 1)
\* the keys met along the chain
RECURSIVE KeysAlong(_)
KeysAlong(chain) ==
  IF chain = <<>> THEN <<>> ELSE tree.nodes[Head(chain)].keys \o KeysAlong(Tail(chain))
Ascending(s) == \A i \in 1..(Len(s) - 1) : s[i] < s[i + 1]
ItemKeys == [i \in 1..Len(items(tree)) |-> items(tree)[i][1]]

\* C18: after any sequence of insert and remove, the leaves are a consistent
\* doubly-linked list (x.next.prev is x, the leftmost leaf has no prev), the
\* list from the leftmost leaf visits every leaf exactly once, the keys along
\* it are strictly ascending, and items() yields every stored key once, in
\* ascending order, with its bucket.
C18_LeafChain ==
  /\ \A n \in Leaves :
       /\ tree.nodes[n].next # 0 => tree.nodes[tree.nodes[n].next].prev = n
       /\ tree.nodes[n].prev # 0 => tree.nodes[tree.nodes[n].prev].next = n
  /\ tree.nodes[_leftmost_leaf(tree)].prev = 0
  /\ Range(LeafChain) = Leaves
  /\ Len(LeafChain) = Cardinality(Leaves)
  /\ Ascending(KeysAlong(LeafChain))
  /\ Ascending(ItemKeys)
  /\ Range(ItemKeys) = StoredKeys
  /\ \A i \in 1..Len(items(tree)) :
       /\ Range(items(tree)[i][2]) = Bucket(items(tree)[i][1])
       /\ Len(items(tree)[i][2]) = Cardinality(Bucket(items(tree)[i][1]))

C18_Witness ==
  /\ ret.op = "tree_remove" /\ ret.val = TRUE /\ ~ret.same
  /\ Deep
  /\ Cardinality(Leaves) >= 3
  /\ Len(LeafChain) = Cardinality(Leaves)
  /\ Len(ItemKeys) >= MaxTreeKey - 1

\* the buckets of the tree, from items()
Buckets == {items(tree)[i][2] : i \in 1..Len(items(tree))}

\* C19: inserting a (key, value) pair that is stored leaves the tree and
\* len(tree) as they are, no bucket holds a value twice, and len(tree) is the
\* number of distinct pairs stored.
C19_InsertIdempotent ==
  /\ \A p \in pairs : insert(tree, p[1], p[2]) = tree
  /\ (ret.op = "tree_insert" /\ ret.again) => (ret.exc = "" /\ ret.same)
  /\ \A bucket \in Buckets : Len(bucket) = Cardinality(Range(bucket))
  /\ tree.size = Cardinality(pairs)

C19_Witness ==
  /\ ret.op = "tree_insert" /\ ret.again /\ ret.same
  /\ \E bucket \in Buckets : Len(bucket) = 2
  /\ tree.size = MaxTreeKey + MaxDupKey
  /\ Deep

\* the values a remove is asked for: those inserted, one never inserted, and
\* None for remove(key)
RemoveValues == {1, 2, 3, None}
\* what remove(k, value) takes out of the bucket of k
Taken(k, value) == IF value = None THEN Bucket(k) ELSE Bucket(k) \cap {value}
KeysOfItems(t) == {items(t)[i][1] : i \in 1..Len(items(t))}

\* C20: remove(k, v) returns False and leaves the tree as it is when k is
\* absent or v is not in the bucket of k; otherwise it returns True and takes
\* v (every value of k for remove(k)) out of the bucket, len(tree) going down
\* by the number of values taken; when no value of k is left, find(k) is []
\* and items() does not yield k; the other keys keep their buckets.
C20_Remove ==
  \A k \in Probes : \A value \in RemoveValues :
    LET r == remove(tree, k, value)
    IN /\ r.t.exc = ""
       /\ Taken(k, value) = {} => (r.val = FALSE /\ r.t = tree)
       /\ Taken(k, value) # {} =>
            /\ r.val = TRUE
            /\ r.t.size = tree.size - Cardinality(Taken(k, value))
            /\ Range(find(r.t, k)) = Bucket(k) \ Taken(k, value)
            /\ (Bucket(k) = Taken(k, value)) =>
                 (find(r.t, k) = <<>> /\ k \notin KeysOfItems(r.t))
            /\ KeysOfItems(r.t) = StoredKeys \ (IF Bucket(k) = Taken(k, value)
                                                 THEN {k} ELSE {})
            /\ \A j \in Probes \ {k} : find(r.t, j) = find(tree, j)

C20_Witness ==
  /\ ret.op = "tree_remove" /\ ret.val = TRUE /\ ret.again /\ ~ret.same
  /\ ret.rid = None
  /\ tree.size = MaxTreeKey + MaxDupKey - 2
  /\ find(tree, ret.key) = <<>>
  /\ ret.key \notin KeysOfItems(tree)
  /\ ~tree.nodes[tree.root].leaf

\* the tree after remove(k, value) followed by insert(k, value)
RoundTrip(k, value) == insert(remove(tree, k, value).t, k, value)

\* C21: for any tree and any pair (k, v) stored in it, remove(k, v) followed
\* by insert(k, v) restores items(), the keys and the content and order of
\* every bucket, and len(tree).
C21_RemoveInsertRoundTrip ==
  \A p \in pairs :
    /\ RoundTrip(p[1], p[2]).exc = ""
    /\ items(RoundTrip(p[1], p[2])) = items(tree)
    /\ RoundTrip(p[1], p[2]).size = tree.size

\* the values of the written slots of the page, in slot order
Stored == [i \in 1..page.num_records |-> PageRead(page, i - 1)]

\* C22: on a fresh page the i-th append (from 0) returns slot i and adds one
\* to num_records; after records_per_page appends has_capacity is false and
\* every further append is rejected, leaving num_records and the stored
\* values as they were; num_records never exceeds records_per_page.
C22_Appends ==
  /\ page.num_records <= records_per_page
  /\ page.num_records = Len(written)
  /\ Stored = written
  /\ has_capacity(page) <=> Len(written) < records_per_page
  /\ ret.op = "write" =>
       IF ret.full
       THEN ret.same /\ Len(written) = records_per_page
       ELSE ret.val = Len(written) - 1 /\ ~ret.same
C22_Witness ==
  /\ ret.op = "write"
  /\ ret.full
  /\ ret.same
  /\ page.num_records = records_per_page
  /\ Stored = written

\* the end of the range the last read_range call read up to
RangeEnd == IF ret.key = None THEN Len(written) ELSE ret.key

\* C23: read(slot) raises IndexError exactly when slot is outside
\* [0, num_records) and otherwise returns the value last written to the slot;
\* read_range(start, end) raises IndexError unless
\* 0 <= start <= end <= num_records and otherwise returns the values of the
\* slots start..end-1 in order, the empty list when start = end.
C23_Reads ==
  /\ ret.op = "read" =>
       IF ret.arg < 0 \/ ret.arg >= Len(written)
       THEN ret.exc = "IndexError"
       ELSE ret.exc = "" /\ ret.val = At(written, ret.arg)
  /\ ret.op = "read_range" =>
       IF 0 <= ret.arg /\ ret.arg <= RangeEnd /\ RangeEnd <= Len(written)
       THEN ret.exc = "" /\ ret.val = SubSeq(written, ret.arg + 1, RangeEnd)
       ELSE ret.exc = "IndexError"
C23_Witness ==
  /\ ret.op = "read_range"
  /\ ret.exc = ""
  /\ ret.arg = 0
  /\ ret.key = records_per_page
  /\ ret.val = written
  /\ written[1] # written[Len(written)]

\* C24: decode_rid(encode_rid(range_id, segment, offset)) yields the same
\* range_id and segment, and a page_index and slot_index with
\* page_index * records_per_page + slot_index = offset; distinct triples
\* (range_id, segment, offset) encode to distinct RIDs.
C24_RidCodec ==
  /\ ret.op = "decode_rid" =>
       /\ ret.val[1] = ret.key
       /\ ret.val[2] = ret.arg
       /\ ret.val[3] * records_per_page + ret.val[4] = ret.rid
       /\ ret.val[4] \in 0..(records_per_page - 1)
  /\ ret.op = "encode_rid" =>
       \A t \in RidTriples :
         encode_rid(t[1], t[2], t[3]) = ret.val => t = << ret.key, ret.arg, ret.rid >>
C24_Witness ==
  /\ ret.op = "decode_rid"
  /\ ret.key = MaxRange
  /\ ret.arg = 1
  /\ ret.rid = records_per_range - 1
  /\ ret.val = << MaxRange, 1, pages_per_range - 1, records_per_page - 1 >>

\* the number of base inserts that have returned a RID
BaseInserted == Cardinality(BaseRows)
\* the RID the claim gives the n-th successful base insert, n from 0
NthBaseRid(n) == encode_rid(n \div records_per_range, 0, n % records_per_range)
\* the records written into the base segment of range_id
BaseWritten(range_id) == RecordsIn(SegmentPages(pd, range_id, "base"))

\* C25: the n-th successful base insert (n from 0) returns
\* encode_rid(n div records_per_range, 0, n mod records_per_range): no base
\* segment holds more than records_per_range records, the insert after a full
\* range starts the next range at offset 0, and the RIDs issued within one
\* range are contiguous and increasing.
C25_BaseRids ==
  /\ (ret.op = "add_base" /\ ret.exc = "") => ret.val = NthBaseRid(BaseInserted - 1)
  /\ BaseRows = {NthBaseRid(n) : n \in 0..(BaseInserted - 1)}
  /\ \A range_id \in DOMAIN pd.page_directory :
       BaseWritten(range_id) <= records_per_range
C25_Witness ==
  /\ ret.op = "add_base"
  /\ ret.exc = ""
  /\ BaseInserted = records_per_range + 1
  /\ ret.val = encode_rid(1, 0, 0)
  /\ BaseWritten(0) = records_per_range
  /\ BaseWritten(1) = 1

\* the (key, value) pairs a tree holds
PairsOf(t) ==
  UNION {{<< items(t)[i][1], v >> : v \in Range(items(t)[i][2])} :
           i \in 1..Len(items(t))}
\* the pairs (value of column, base RID) of the base records that are not
\* tombstoned and whose value in column is not NULL
LoadedPairs(column) ==
  {<< At(lineage[b].data, column), b >> :
     b \in {l \in LiveRows : At(lineage[l].data, column) # null_value}}

\* C26: create_index(col) on a column that is not indexed returns True and
\* builds a tree holding exactly the pairs (value of col, base RID) of the
\* base records that are not tombstoned and whose value in col is not NULL,
\* over any number of ranges; on an indexed column it returns False and
\* changes nothing.
C26_CreateIndex ==
  (ret.op = "create_index" /\ ret.arg \in Columns) =>
    IF ret.again
    THEN ret.exc = "" /\ ret.val = FALSE /\ ret.same
    ELSE /\ ret.exc = ""
         /\ ret.val = TRUE
         /\ PairsOf(At(index, ret.arg)) = LoadedPairs(ret.arg)
         /\ At(index, ret.arg).size = Cardinality(LoadedPairs(ret.arg))

\* the values and range ends an index is probed with
LoadProbes == {LoadValue, null_value} \cup 0..(MaxBase + 1)

KeysOf(t) == {p[1] : p \in PairsOf(t)}

\* C28: Index.add(rid, columns) inserts (value, rid) into the tree of every
\* indexed column whose value is present and nothing for a column whose value
\* is None or the NULL sentinel; the NULL sentinel is a key of no index.
C28_AddSkipsNull ==
  /\ (ret.op = "index_add" /\ ret.exc = "") =>
       \A column \in Columns :
         IF Indexed(ret.before, column)
         THEN PairsOf(At(index, column)) =
                PairsOf(At(ret.before, column)) \cup
                  (IF At(ret.val, column) \in {None, null_value} THEN {}
                   ELSE {<< At(ret.val, column), ret.rid >>})
         ELSE At(index, column) = At(ret.before, column)
  /\ \A column \in Columns :
       Indexed(index, column) => null_value \notin KeysOf(At(index, column))

\* the list without the entries equal to rid
Without(list, rid) == SelectSeq(list, LAMBDA x : x # rid)
\* column is one the last Index.update call had to move its rid in
Moved29(column) ==
  /\ Indexed(ret.before, column)
  /\ At(ret.arg, column) # At(ret.val, column)
  /\ At(ret.arg, column) # None
  /\ At(ret.val, column) # None

\* C29: Index.update(rid, old, new) moves rid, in every indexed column where
\* old and new differ and both are present, from the bucket of the old value
\* to the bucket of the new value; the other columns and the entries of the
\* other RIDs are left as they were.
C29_UpdateMoves ==
  ret.op = "index_update" =>
    /\ ret.exc = ""
    /\ \A column \in Columns :
         IF Moved29(column)
         THEN /\ ret.rid \notin Range(locate(index, column, At(ret.arg, column)))
              /\ ret.rid \in Range(locate(index, column, At(ret.val, column)))
              /\ \A k \in IndexValues \ {None} :
                   Without(locate(index, column, k), ret.rid) =
                     Without(locate(ret.before, column, k), ret.rid)
              /\ PairsOf(At(index, column)) \ {<< At(ret.val, column), ret.rid >>} =
                   PairsOf(At(ret.before, column))
                     \ {<< At(ret.arg, column), ret.rid >>, << At(ret.val, column), ret.rid >>}
         ELSE At(index, column) = At(ret.before, column)
C29_Witness ==
  /\ ret.op = "index_update"
  /\ ret.rid = 0
  /\ At(ret.arg, key) = LoadValue
  /\ At(ret.val, key) = OtherValue
  /\ locate(ret.before, key, LoadValue) = << 1, 0 >>
  /\ locate(index, key, LoadValue) = << 1 >>
  /\ locate(index, key, OtherValue) = << 0 >>
  /\ \E column \in Columns : Indexed(index, column) /\ ~Moved29(column)

\* the operations of Query
QueryOps == {"insert", "update", "delete_key", "select", "select_version", "sum",
             "increment"}

\* C30: no Query operation lets an error escape to its caller (a failure is
\* returned as False or as an empty list), and increment on a key that
\* matches no record returns False.
C30_NoErrorEscapes ==
  /\ ret.op \in QueryOps => ret.exc \in {"", "Nontermination"}
  /\ (ret.op = "increment" /\ ~KeyIsLive(ret.key)) => (ret.exc = "" /\ ret.val = FALSE)

\* C31: delete_record(rid) returns False and changes nothing when rid is not
\* the RID of an allocated base record (negative, not allocated, or a RID of
\* a tail segment); a call that returns True changes only the indirection
\* slot of the base record whose RID is rid, so every base record that holds
\* a tombstone is one delete_record returned True for.
C31_DeleteOnlyItsRecord ==
  /\ (ret.op = "delete" /\ ret.rid \notin BaseRows) =>
       (ret.exc = "" /\ ret.val = FALSE /\ ret.same)
  /\ \A b \in BaseRows : Tombstoned(b) => b \in deleted
  /\ \A b \in BaseRows \ deleted :
       /\ get_record_from_rid(pd, b).exc = ""
       /\ At(get_record_from_rid(pd, b).val, rid_column) = b
       /\ SubSeq(get_record_from_rid(pd, b).val, base_meta_columns + 1,
                 base_meta_columns + num_columns) = lineage[b].data

\* the record stored at slot of a logical page
StoredRecord(logical_page, slot) ==
  [i \in 1..Len(logical_page) |-> PageRead(logical_page[i], slot)]
\* the records stored in the pages of a segment
StoredIn(pages) ==
  UNION {{StoredRecord(pages[p], slot) :
            slot \in 0..(At(pages[p], rid_column).num_records - 1)} :
           p \in 1..Len(pages)}
\* the tail records stored in the directory
StoredTails ==
  UNION {StoredIn(SegmentPages(pd, range_id, "tail")) :
           range_id \in DOMAIN pd.page_directory}
\* bit number bit of value
BitAt(value, bit) == (value \div (2 ^ bit)) % 2

\* C32: the schema_encoding stored with a tail record has bit
\* num_columns - 1 - i set exactly when data column i of the tail is not
\* NULL, whatever the caller handed in in that slot; the tail Query.update
\* writes holds NULL in exactly the columns it was given None for.
C32_TailSchema ==
  /\ \A record \in StoredTails :
       /\ At(record, schema_encoding_column) \in 0..(2 ^ num_columns - 1)
       /\ \A i \in Columns :
            BitAt(At(record, schema_encoding_column), num_columns - 1 - i) = 1
              <=> At(record, tail_meta_columns + i) # null_value
  /\ (ret.op = "update" /\ ret.exc = "" /\ ret.val = TRUE) =>
       \E record \in StoredTails :
         /\ At(record, rid_column) = Last(TailsOf(ret.rid)).rid
         /\ At(record, base_rid_column) = ret.rid
         /\ DataOf(record) = Last(TailsOf(ret.rid)).data
C32_Witness ==
  /\ ret.op = "add_tail"
  /\ ret.exc = ""
  /\ ret.arg = 2 ^ num_columns - 1
  /\ \E record \in StoredTails :
       /\ At(record, rid_column) = ret.val
       /\ At(record, schema_encoding_column) = 1
       /\ At(record, tail_meta_columns) = null_value
  /\ \E record \in StoredTails :
       /\ At(record, schema_encoding_column) = 2 ^ (num_columns - 1)
       /\ At(record, rid_column) # ret.val

\* the tail RIDs met by following indirection from RID rid down to base row b,
\* at most steps of them; <<-1>> at the end of a walk that does not arrive
RECURSIVE Follow(_, _, _)
Follow(b, rid, steps) ==
  IF rid = b \/ rid = null_value THEN <<>>
  ELSE IF steps = 0 \/ get_record_from_rid(pd, rid).exc # "" THEN << -1 >>
  ELSE <<rid>> \o Follow(b, At(get_record_from_rid(pd, rid).val, indirection_column),
                         steps - 1)
\* the RIDs of the tails of row b, newest first
NewestFirst(b) == Reverse([j \in 1..Len(TailsOf(b)) |-> TailsOf(b)[j].rid])

\* C33: for each base row that is not tombstoned, indirection is NULL while
\* the row has no tail and the RID of its newest tail afterwards; the first
\* tail's indirection is the base RID, each later tail's is the RID of the tail
\* before it; following indirection from the base meets the row's tails, each
\* once, newest to oldest, all carrying the row's RID in base_rid.
C33_IndirectionChain ==
  \A b \in BaseRows :
    ~Tombstoned(b) =>
      /\ At(get_record_from_rid(pd, b).val, indirection_column) =
           IF TailsOf(b) = <<>> THEN null_value ELSE Last(TailsOf(b)).rid
      /\ \A j \in 1..Len(TailsOf(b)) :
           LET r == get_record_from_rid(pd, TailsOf(b)[j].rid)
           IN /\ r.exc = ""
              /\ At(r.val, indirection_column) =
                   IF j = 1 THEN b ELSE TailsOf(b)[j - 1].rid
              /\ At(r.val, base_rid_column) = b
      /\ Follow(b, At(get_record_from_rid(pd, b).val, indirection_column),
                records_per_range + 1) = NewestFirst(b)

\* the slots written in old hold in new what they held, those of the columns
\* in free apart, and no page and no record of old is missing from new
Kept(old, new, free) ==
  /\ Len(new) >= Len(old)
  /\ \A p \in 1..Len(old) :
       /\ Len(new[p]) = Len(old[p])
       /\ \A c \in 1..Len(old[p]) :
            /\ new[p][c].num_records >= old[p][c].num_records
            /\ \A slot \in 0..(old[p][c].num_records - 1) :
                 \/ (c - 1) \in free
                 \/ PageRead(new[p][c], slot) = PageRead(old[p][c], slot)

\* C34: no call changes the rid, timestamp or data slot of a written base
\* record (its indirection and schema_encoding may change), no call changes
\* any slot of a written tail record, and no record or page is removed.
C34_WrittenStays ==
  [][\A range_id \in DOMAIN pd.page_directory :
       /\ range_id \in DOMAIN pd'.page_directory
       /\ Kept(SegmentPages(pd, range_id, "base"), SegmentPages(pd', range_id, "base"),
               {indirection_column, schema_encoding_column})
       /\ Kept(SegmentPages(pd, range_id, "tail"), SegmentPages(pd', range_id, "tail"),
               {})]_vars
\* a row that was updated and then deleted still holds its RID and its data
C34_Witness ==
  /\ ret.op = "delete"
  /\ ret.exc = ""
  /\ ret.val = TRUE
  /\ ret.rid \in BaseRows
  /\ TailsOf(ret.rid) # <<>>
  /\ \E record \in StoredIn(SegmentPages(pd, 0, "base")) :
       /\ At(record, rid_column) = ret.rid
       /\ At(record, indirection_column) = deleted_record_value
       /\ At(record, schema_encoding_column) # 0
       /\ SubSeq(record, base_meta_columns + 1, Len(record)) = lineage[ret.rid].data
  /\ StoredTails # {}

\* offsets[range_id], 0 for a range that has no entry
OffsetAt(offsets, range_id) ==
  IF range_id \in DOMAIN offsets THEN offsets[range_id] ELSE 0
\* directory new holds the offsets, counters and pages of directory old
SameDirectory(old, new) ==
  /\ new.num_base_records = old.num_base_records
  /\ new.num_tail_records = old.num_tail_records
  /\ \A range_id \in DOMAIN old.base_offsets \cup DOMAIN new.base_offsets
                      \cup DOMAIN old.tail_offsets \cup DOMAIN new.tail_offsets
                      \cup DOMAIN old.page_directory \cup DOMAIN new.page_directory :
       /\ OffsetAt(new.base_offsets, range_id) = OffsetAt(old.base_offsets, range_id)
       /\ OffsetAt(new.tail_offsets, range_id) = OffsetAt(old.tail_offsets, range_id)
       /\ SegmentPages(new, range_id, "base") = SegmentPages(old, range_id, "base")
       /\ SegmentPages(new, range_id, "tail") = SegmentPages(old, range_id, "tail")

\* C35: an add_record that fails on the column count, or as a tail insert on a
\* tombstoned or missing base record (the tail range not being full), leaves
\* the offsets, the counters and the pages as they were, and a tail insert that
\* succeeds gets the offset after the tails written in its range.
C35_FailedInsertLeavesNoTrace ==
  [][/\ (/\ ret'.op \in {"add_base", "add_tail", "add_wrong"}
         /\ ret'.exc # ""
         /\ ~(ret'.op = "add_tail"
              /\ TailOffset(decode_rid(ret'.rid)[1]) >= records_per_range))
        => SameDirectory(pd, pd')
     /\ (ret'.op = "add_tail" /\ ret'.exc = "")
        => ret'.val = encode_rid(decode_rid(ret'.rid)[1], 1,
                                 TailsWritten(decode_rid(ret'.rid)[1]))]_vars

\* C36: for a base row that is not tombstoned, the data columns
\* get_cumulative_updated_record returns, walking the chain newest to oldest
\* by the schema encoding, are the base data with every tail of the row
\* applied oldest first.
C36_CumulativeIsOldestFirst ==
  \A b \in BaseRows :
    ~Tombstoned(b) =>
      /\ get_cumulative_updated_record_from_base_rid(pd, b).exc = ""
      /\ DataOf(get_cumulative_updated_record_from_base_rid(pd, b).val) =
           AfterTails(b, Len(TailsOf(b)))

\* the ranges the directory holds anything for
RangesOf(d) ==
  DOMAIN d.page_directory \cup DOMAIN d.base_offsets \cup DOMAIN d.tail_offsets

\* C37: the column pages of one logical page hold the same number of
\* records; the append offset of each range and segment is the number of
\* records written into the pages of the segment, every page before the last
\* one being full; num_base_records and num_tail_records are the sums of the
\* base and tail offsets.
C37_OffsetsCountRecords ==
  /\ \A range_id \in RangesOf(pd) : \A segment_key \in {"base", "tail"} :
       LET pages == SegmentPages(pd, range_id, segment_key)
           offset == OffsetAt(IF segment_key = "base" THEN pd.base_offsets
                              ELSE pd.tail_offsets, range_id)
       IN /\ \A p \in 1..Len(pages) : \A c \in 1..Len(pages[p]) :
               pages[p][c].num_records = At(pages[p], rid_column).num_records
          /\ RecordsIn(pages) = offset
          /\ \A p \in 1..Len(pages) :
               At(pages[p], rid_column).num_records =
                 Min(records_per_page, Max(0, offset - (p - 1) * records_per_page))
  /\ pd.num_base_records = SumOver(pd.base_offsets, DOMAIN pd.base_offsets)
  /\ pd.num_tail_records = SumOver(pd.tail_offsets, DOMAIN pd.tail_offsets)

\* the depths at which the leaves of the subtree of n lie, n at depth
RECURSIVE LeafDepths(_, _)
LeafDepths(n, depth) ==
  IF tree.nodes[n].leaf THEN {depth}
  ELSE UNION {LeafDepths(tree.nodes[n].children[i], depth + 1) :
                i \in 1..Len(tree.nodes[n].children)}
\* the keys held by the nodes of the subtree of n
SubtreeKeys(n) == UNION {Range(tree.nodes[m].keys) : m \in NodesUnder(n)}
Internals == NodesUnder(tree.root) \ Leaves

\* C38: after any sequence of insert and remove, all leaves lie at one depth;
\* an internal node has one child more than keys and at most order - 1 keys;
\* the parent of a child is the node that lists it; the keys under children[i]
\* are below keys[i] and those under children[i+1] are not; find reaches the
\* leaf that holds k for every stored key k; and the tree that lost its last
\* key is a single empty leaf.
C38_TreeShape ==
  /\ Cardinality(LeafDepths(tree.root, 0)) = 1
  /\ tree.nodes[tree.root].parent = 0
  /\ \A n \in Internals :
       /\ Len(tree.nodes[n].children) = KeyCount(n) + 1
       /\ KeyCount(n) <= tree.order - 1
       /\ \A i \in 1..Len(tree.nodes[n].children) :
            tree.nodes[tree.nodes[n].children[i]].parent = n
       /\ \A i \in 1..KeyCount(n) :
            /\ \A k \in SubtreeKeys(tree.nodes[n].children[i]) :
                 k < tree.nodes[n].keys[i]
            /\ \A k \in SubtreeKeys(tree.nodes[n].children[i + 1]) :
                 tree.nodes[n].keys[i] <= k
  /\ \A k \in StoredKeys :
       /\ k \in Range(tree.nodes[_find_leaf(tree, k)].keys)
       /\ find(tree, k) # <<>>
  /\ \A k \in TreeKeys \ StoredKeys : find(tree, k) = <<>>
  /\ StoredKeys = {} =>
       /\ NodesUnder(tree.root) = {tree.root}
       /\ tree.nodes[tree.root].leaf
       /\ tree.nodes[tree.root].keys = <<>>
       /\ tree.size = 0
\* a remove that reshaped a tree of three levels
C38_Witness ==
  /\ ret.op = "tree_remove" /\ ret.val = TRUE /\ ~ret.same
  /\ Deep
  /\ Cardinality(Internals) >= 3
  /\ LeafDepths(tree.root, 0) = {2}
  /\ \E n \in Internals : n # tree.root /\ KeyCount(n) >= 1

\* a row of primary key k was deleted through Query.delete and no row that is
\* not tombstoned has the key
KeyIsFreed(k) ==
  /\ \E b \in deleted \cap BaseRows : LatestValue(b, key + 1) = k
  /\ ~KeyIsLive(k)

\* C39: once the row of primary key k was deleted by Query.delete, Query.insert
\* of a row with key k returns True, and Query.select(k, key column, all
\* columns) then returns that row and no other.
C39_KeyReusable ==
  \A k \in Keys : KeyIsFreed(k) =>
    \A row \in RowsOf(k) : \A now \in Clock :
      LET r == QueryInsert(pd, index, row, now)
      IN /\ r.exc = ""
         /\ r.val = TRUE
         /\ QuerySelect(r.pd, r.index, k, key, AllColumns).ok
         /\ QuerySelect(r.pd, r.index, k, key, AllColumns).val = RowRecord(r.rid, row)

====
